---- MODULE Spec2Model ----
(***************************************************************************)
(* Echo-server: categories and items kept in a document store, with slug   *)
(* allocation and the denormalized per-category item counter.               *)
(*                                                                         *)
(* The model follows the relaxed (JavaScript) variant of the handlers:     *)
(* controllers/categoryController.js (src/src/app.ts:159-484),             *)
(* controllers/itemController.js (src/unnamed/part_001), the schemas       *)
(* models/Category.js (src/unnamed/part_003:1-83) and models/Item.js, the  *)
(* routes in routes/items.js and routes/categories.ts and the validators   *)
(* of middleware/validation.js.                                            *)
(*                                                                         *)
(* Every await of a handler is one atomic step on the store; what a        *)
(* handler does between two awaits is part of the step that follows.       *)
(* Strings are sequences of one-character strings.                         *)
(***************************************************************************)
EXTENDS Integers, Sequences, FiniteSets, TLC

\* ------------------------------------------------------------------------
\* Characters and strings
\* ------------------------------------------------------------------------

LowerSeq ==
    <<"a","b","c","d","e","f","g","h","i","j","k","l","m",
      "n","o","p","q","r","s","t","u","v","w","x","y","z">>

UpperSeq ==
    <<"A","B","C","D","E","F","G","H","I","J","K","L","M",
      "N","O","P","Q","R","S","T","U","V","W","X","Y","Z">>

DigitSeq ==
    <<"0","1","2","3","4","5","6","7","8","9">>

Range(s) ==
    { s[i] : i \in DOMAIN s }

\* the character class \s of the regular expressions (space and tab here)
Whitespace ==
    {" ", "\t"}

\* the character class [a-z0-9-] of the slug pattern
SlugChars ==
    Range(LowerSeq) \cup Range(DigitSeq) \cup {"-"}

\* a field that the request body does not carry (JavaScript undefined)
Undefined ==
    <<"undefined">>

\* JavaScript truthiness of a string-valued field: undefined and "" are falsy
Truthy(s) ==
    s # Undefined /\ s # <<>>

\* String.prototype.toLowerCase, one character
ToLowerChar(ch) ==
    IF \E i \in DOMAIN UpperSeq : UpperSeq[i] = ch
    THEN LowerSeq[CHOOSE i \in DOMAIN UpperSeq : UpperSeq[i] = ch]
    ELSE ch

\* String.prototype.toLowerCase
ToLowerCase(s) ==
    [i \in 1..Len(s) |-> ToLowerChar(s[i])]

\* String.prototype.trim
Trim(s) ==
    LET keep == { i \in 1..Len(s) : s[i] \notin Whitespace }
    IN  IF keep = {} THEN <<>>
        ELSE LET lo == CHOOSE i \in keep : \A j \in keep : i <= j
                 hi == CHOOSE i \in keep : \A j \in keep : i >= j
             IN  SubSeq(s, lo, hi)

\* .replace(/[^a-z0-9\s-]/g, "")
StripSpecial(s) ==
    SelectSeq(s, LAMBDA ch : ch \in SlugChars \cup Whitespace)

\* .replace(/\s+/g, "-"): every maximal run of whitespace becomes one hyphen
RECURSIVE SpacesToHyphen(_)
SpacesToHyphen(s) ==
    IF s = <<>> THEN <<>>
    ELSE IF Head(s) \in Whitespace
         THEN IF Len(s) > 1 /\ s[2] \in Whitespace
              THEN SpacesToHyphen(Tail(s))
              ELSE <<"-">> \o SpacesToHyphen(Tail(s))
         ELSE <<Head(s)>> \o SpacesToHyphen(Tail(s))

\* .replace(/-+/g, "-"): every maximal run of hyphens becomes one hyphen
CollapseHyphens_Keeping(s) ==
    s

RECURSIVE CollapseHyphens(_)
CollapseHyphens(s) ==
    IF s = <<>> THEN <<>>
    ELSE IF Head(s) = "-" /\ Len(s) > 1 /\ s[2] = "-"
         THEN CollapseHyphens(Tail(s))
         ELSE <<Head(s)>> \o CollapseHyphens(Tail(s))

\* .replace(/^-|-$/g, ""): one leading and one trailing hyphen are removed
StripEdgeHyphens(s) ==
    LET a == IF s # <<>> /\ Head(s) = "-" THEN Tail(s) ELSE s
    IN  IF a # <<>> /\ a[Len(a)] = "-" THEN SubSeq(a, 1, Len(a) - 1) ELSE a

\* the slug derivation of the controllers, from a name or a title
Slugify(s) ==
    StripEdgeHyphens(CollapseHyphens(SpacesToHyphen(StripSpecial(Trim(ToLowerCase(s))))))

\* the decimal digits of a counter, as `${counter}` yields them
RECURSIVE DecimalString(_)
DecimalString(n) ==
    IF n < 10 THEN <<DigitSeq[n + 1]>>
    ELSE DecimalString(n \div 10) \o <<DigitSeq[(n % 10) + 1]>>

\* a suffix without its hyphen
Suffixed_NoHyphen(slug, counter) ==
    slug \o DecimalString(counter)

\* `${slug}-${counter}`
Suffixed(slug, counter) ==
    slug \o <<"-">> \o DecimalString(counter)

\* the schema's slug setters: trim: true, lowercase: true
SlugSetters(s) ==
    IF s = Undefined THEN Undefined ELSE ToLowerCase(Trim(s))

\* the pattern /^[a-z0-9-]+$/
MatchesSlugPattern(s) ==
    s # Undefined /\ s # <<>> /\ \A i \in 1..Len(s) : s[i] \in SlugChars


\* ------------------------------------------------------------------------
\* Bounds of the model and the inputs the requests are drawn from
\* ------------------------------------------------------------------------

\* how many of the default categories the init script has created
SeededCategories == 2

\* how many further category ids the store hands out
MaxNewCategories == 2

\* how many item ids the store hands out
MaxItems == 2

\* how many requests are budget in a behaviour of one-at-a-time requests
MaxRequests == 2

\* how many requests are budget in a behaviour of concurrent requests
MaxConcurrentRequests == 2

\* how many ids a bulk delete request lists at most
MaxBulkIds == 2

\* the request slots: requests in different slots run concurrently
Procs ==
    {1, 2}

\* the slugs of the default categories, in the order the init script creates them
DefaultSlugs ==
    << <<"m","o","v","i","e","s">>, <<"s","e","r","i","e","s">>,
       <<"a","n","i","m","e">>, <<"g","a","m","e","s">> >>

CategoryIds ==
    1..(SeededCategories + MaxNewCategories)

ItemIds ==
    1..MaxItems

\* a well-formed ObjectId that no document has ever had
UnknownId == 0

\* an id field the request does not carry
NoId == -1

\* an id that is not a well-formed ObjectId
MalformedId == -2

CategoryStatuses ==
    {"active", "inactive"}

ItemStatuses ==
    {"active", "inactive", "draft"}

\* a status field the request does not carry
NoStatus == "undefined"

\* a category body: name, slug, status and whether the remaining fields pass
\* the schema (a description is given, the name has at most 50 characters)
CategoryBody(name, slug, status, ok) ==
    [name |-> name, slug |-> slug, status |-> status, fieldsOk |-> ok]

\* the category bodies of POST and PUT /api/categories
CategoryBodies ==
    { CategoryBody(<<"G","a","m","e","s">>, Undefined, NoStatus, TRUE),
      CategoryBody(<<"M","o","v","i","e","s"," ">>, Undefined, NoStatus, TRUE),
      CategoryBody(<<"!">>, Undefined, NoStatus, TRUE),
      CategoryBody(<<"G","a","m","e","s">>, <<"g","a","m","e","s","-","1">>, NoStatus, TRUE),
      CategoryBody(<<"G","a","m","e","s">>, Undefined, "inactive", TRUE),
      CategoryBody(<<"G","a","m","e","s">>, Undefined, NoStatus, FALSE) }

\* the character list of the bodies that carry one
OneCharacter ==
    <<"c">>

\* an item body without its category: title, slug and status; it carries
\* no characters field
ItemBody(title, slug, status) ==
    [title |-> title, slug |-> slug, status |-> status, characters |-> Undefined]

\* the body with a characters field in addition
WithCharacters(body, characters) ==
    [body EXCEPT !.characters = characters]

\* the item bodies of POST and PUT /api/items
ItemBodies ==
    { ItemBody(<<"X">>, Undefined, NoStatus),
      WithCharacters(ItemBody(<<"X">>, Undefined, "active"), OneCharacter),
      ItemBody(Undefined, <<"X">>, "active"),
      ItemBody(Undefined, <<"x", "!">>, NoStatus),
      ItemBody(Undefined, <<" ">>, NoStatus),
      ItemBody(Undefined, Undefined, NoStatus) }

\* the item bodies of PUT /api/items/:id
ItemUpdateBodies ==
    { ItemBody(Undefined, Undefined, NoStatus),
      ItemBody(Undefined, Undefined, "inactive"),
      ItemBody(<<"X">>, Undefined, NoStatus),
      WithCharacters(ItemBody(Undefined, <<" ">>, NoStatus), OneCharacter) }

\* ------------------------------------------------------------------------
\* State
\* ------------------------------------------------------------------------

VARIABLES
    categories,      \* the categories collection: id -> [slug, status, itemCount]
    items,           \* the items collection: id -> [slug, category, status]
    nextCategoryId,  \* the next _id a new Category gets
    nextItemId,      \* the next _id a new Item gets
    budget,          \* requests still to be budget
    pc,              \* per slot: the await the handler is at
    req,             \* per slot: the request (params and body)
    loc,             \* per slot: the handler's local variables
    res,             \* per slot: the response sent
    hist,            \* per slot: what the request saw and did (history)
    admins,          \* the admins collection: id -> admin document
    clock,           \* the auth requests issued so far (the logical time)
    authPc,          \* the await the auth middleware or handler is at
    authReq,         \* the auth request: credentials, body, the attached admin
    authLoc,         \* the auth handler's local variables
    authRes,         \* the auth response sent
    authHist,        \* what the auth request saw and did (history)
    hits,            \* per limiter and source address: requests counted in its window
    ip,              \* per slot: the source address of the request
    arrival,         \* per slot: the counts the request found (history)
    matching,        \* the documents a list request's filter matches, in sort order
    listReq,         \* the list request's query: page, limit
    listRes,         \* the list response: records and pagination
    slugSource,      \* the name or title a slug is derived from
    slugResult       \* the slug derived from it, and the slug derived from that

catalogVars ==
    <<categories, items, nextCategoryId, nextItemId, budget, pc, req, loc, res, hist>>

authVars ==
    <<admins, clock, authPc, authReq, authLoc, authRes, authHist>>

limitVars ==
    <<hits, ip, arrival>>

listVars ==
    <<matching, listReq, listRes>>

slugVars ==
    <<slugSource, slugResult>>

vars ==
    <<catalogVars, authVars, limitVars, listVars, slugVars>>

NoRequest ==
    [op |-> "none", id |-> NoId, category |-> NoId, text |-> Undefined,
     slug |-> Undefined, status |-> NoStatus, characters |-> Undefined,
     ids |-> <<>>, fieldsOk |-> TRUE]

NoLocals ==
    [slug |-> Undefined, uniqueSlug |-> Undefined, counter |-> 0,
     currentSlug |-> Undefined, oldCategory |-> NoId, found |-> {},
     categoryIds |-> <<>>, pending |-> {}, counted |-> <<>>, hookCount |-> 0]

NoResponse ==
    [status |-> 0, count |-> 0]

\* no earlier createCategory request in this slot
NoPrevious ==
    [req |-> NoRequest, res |-> NoResponse, categories |-> <<>>]

NoHistory ==
    [categories |-> <<>>, items |-> <<>>,
     recounts |-> [c \in CategoryIds |-> 0],
     counterFailed |-> FALSE, mutated |-> FALSE, previous |-> NoPrevious]

\* ------------------------------------------------------------------------
\* Admins, tokens and auth requests
\* ------------------------------------------------------------------------

AdminEmail == <<"a", "@", "x", ".", "i", "o">>
StaffEmail == <<"s", "@", "x", ".", "i", "o">>
IdleEmail == <<"i", "@", "x", ".", "i", "o">>
NewEmail == <<"n", "@", "x", ".", "i", "o">>

AdminPassword == <<"a", "d", "m", "i", "n", "1">>
StaffPassword == <<"S", "t", "a", "f", "f", "1">>
NewPassword == <<"N", "e", "w", "p", "w", "1">>

\* bcrypt.hash: the stored text is never the password itself
HashPassword(password) ==
    <<"$", "2", "a", "$">> \o password

AdminRoles == {"admin", "super_admin"}

\* the default admin of the init script, an admin it registered, and an
\* admin whose account an operator has switched off
InitialAdmins ==
    << [username |-> <<"a", "d", "m">>, email |-> AdminEmail,
        password |-> HashPassword(AdminPassword), role |-> "super_admin",
        isActive |-> TRUE, lastLogin |-> 0],
       [username |-> <<"s", "t", "f">>, email |-> StaffEmail,
        password |-> HashPassword(StaffPassword), role |-> "admin",
        isActive |-> TRUE, lastLogin |-> 0],
       [username |-> <<"i", "d", "l">>, email |-> IdleEmail,
        password |-> HashPassword(StaffPassword), role |-> "admin",
        isActive |-> FALSE, lastLogin |-> 0] >>

\* the _id of an admin document that is no longer in the collection
RemovedAdminId == 0

NoToken ==
    [kind |-> "none", id |-> NoId, signed |-> FALSE, expired |-> FALSE]

MalformedToken ==
    [kind |-> "malformed", id |-> NoId, signed |-> FALSE, expired |-> FALSE]

\* jwt.sign({ id }, secret, { expiresIn })
generateToken(id) ==
    [kind |-> "jwt", id |-> id, signed |-> TRUE, expired |-> FALSE]

\* no document: what findOne and findById give when nothing matches
NoAdmin ==
    [id |-> NoId, username |-> Undefined, email |-> Undefined,
     password |-> Undefined, role |-> "none", isActive |-> FALSE,
     lastLogin |-> 0]

NoAuthRequest ==
    [op |-> "none", header |-> NoToken, cookie |-> NoToken,
     username |-> Undefined, email |-> Undefined, password |-> Undefined,
     role |-> Undefined, currentPassword |-> Undefined,
     newPassword |-> Undefined, admin |-> NoAdmin]

NoAuthLocals ==
    [admin |-> NoAdmin]

NoAuthResponse ==
    [status |-> 0, message |-> "", token |-> NoToken, cookie |-> "none"]

NoAuthPrevious ==
    [op |-> "none", verdict |-> "none", admin |-> NoId,
     currentPassword |-> Undefined, newPassword |-> Undefined,
     status |-> 0, message |-> ""]

NoAuthHistory ==
    [admins |-> <<>>, verdict |-> "none", handler |-> FALSE,
     previous |-> NoAuthPrevious]

\* no auth request has been issued
AuthIdle ==
    /\ admins = InitialAdmins
    /\ clock = 0
    /\ authPc = "idle"
    /\ authReq = NoAuthRequest
    /\ authLoc = NoAuthLocals
    /\ authRes = NoAuthResponse
    /\ authHist = NoAuthHistory

\* ------------------------------------------------------------------------
\* Rate limiters, list requests and slug derivations at rest
\* ------------------------------------------------------------------------

\* the source addresses requests come from
Sources == {1, 2}

\* the limiters in front of the mutating catalogue routes
Limiters == {"api", "create"}

NoHits ==
    [l \in Limiters |-> [a \in Sources |-> 0]]

NoSource == 0

\* the limiters have counted nothing in their windows
LimitIdle ==
    /\ hits = NoHits
    /\ ip = [p \in Procs |-> NoSource]
    /\ arrival = [p \in Procs |-> NoHits]

NoListRequest ==
    [op |-> "none", page |-> Undefined, limit |-> Undefined]

NoListResponse ==
    [status |-> 0, records |-> <<>>, current |-> 0, pages |-> 0, total |-> 0,
     limit |-> 0, hasNext |-> FALSE, hasPrev |-> FALSE]

\* no list request has been issued
ListIdle ==
    /\ matching = <<>>
    /\ listReq = NoListRequest
    /\ listRes = NoListResponse

NoDerivation ==
    [by |-> "none", slug |-> Undefined, again |-> Undefined]

\* no slug has been derived
SlugIdle ==
    /\ slugSource = Undefined
    /\ slugResult = NoDerivation

\* the items that two createItem requests titled X, the first with status
\* active and a character, the second without a status and without
\* characters, leave in the first category
StoredItems ==
    << [slug |-> <<"x">>, status |-> "active", category |-> 1,
        characters |-> OneCharacter],
       [slug |-> <<"x", "-", "1">>, status |-> "draft", category |-> 1,
        characters |-> <<>>] >>

\* the stores the server may start on: the default categories of the init
\* script, with no item or with the stored items, the counters accurate
InitialItems ==
    { <<>>, StoredItems }

\* the server starts on a store; no request has been issued yet
InitStore(stored) ==
    /\ categories = [c \in 1..SeededCategories |->
                       [slug |-> DefaultSlugs[c], status |-> "active",
                        itemCount |-> Cardinality({ i \in DOMAIN stored :
                                                      /\ stored[i].category = c
                                                      /\ stored[i].status = "active" })]]
    /\ items = stored
    /\ nextCategoryId = SeededCategories + 1
    /\ nextItemId = Len(stored) + 1
    /\ pc = [p \in Procs |-> "idle"]
    /\ req = [p \in Procs |-> NoRequest]
    /\ loc = [p \in Procs |-> NoLocals]
    /\ res = [p \in Procs |-> NoResponse]
    /\ hist = [p \in Procs |-> NoHistory]

Init ==
    /\ \E stored \in InitialItems : InitStore(stored) /\ budget = MaxConcurrentRequests
    /\ AuthIdle /\ LimitIdle /\ ListIdle /\ SlugIdle

InitSeq ==
    /\ \E stored \in InitialItems : InitStore(stored) /\ budget = MaxRequests
    /\ AuthIdle /\ LimitIdle /\ ListIdle /\ SlugIdle

\* ------------------------------------------------------------------------
\* Store queries
\* ------------------------------------------------------------------------

\* the ids a client can have learnt from earlier responses
KnownCategoryIds ==
    1..(nextCategoryId - 1)

KnownItemIds ==
    1..(nextItemId - 1)

\* Category.findById(id)
CategoryExists(id) ==
    id \in DOMAIN categories

\* Item.findById(id)
ItemExists(id) ==
    id \in DOMAIN items

\* Category.findOne({ slug }): the filter is cast by the schema's setters
CategoryWithSlug(slug) ==
    { c \in DOMAIN categories : categories[c].slug = SlugSetters(slug) }

\* Item.findOne({ slug })
ItemWithSlug(slug) ==
    { i \in DOMAIN items : items[i].slug = SlugSetters(slug) }

\* a count of the active items alone
CountItemsOf_ActiveOnly(id) ==
    Cardinality({ i \in DOMAIN items :
                    items[i].category = id /\ items[i].status = "active" })

\* Item.countDocuments({ category: id })
CountItemsOf(id) ==
    Cardinality({ i \in DOMAIN items : items[i].category = id })

\* a count that ignores the status of the items
CountActiveItemsOf_AnyStatus(id) ==
    Cardinality({ i \in DOMAIN items : items[i].category = id })

\* Item.countDocuments({ category: id, status: "active" })
CountActiveItemsOf(id) ==
    Cardinality({ i \in DOMAIN items :
                    items[i].category = id /\ items[i].status = "active" })

\* a function without the key k
Without(f, k) ==
    [x \in DOMAIN f \ {k} |-> f[x]]

\* a function with the key k bound to v
With(f, k, v) ==
    [x \in DOMAIN f \cup {k} |-> IF x = k THEN v ELSE f[x]]

\* ------------------------------------------------------------------------
\* Requests: issue and response
\* ------------------------------------------------------------------------

\* the history of a request: the store when it was issued, how often it
\* recounted each category, whether a counter operation of it failed,
\* whether it changed the items collection, and the request before it in
\* the slot if that was a createCategory
NewHistory(p) ==
    [NoHistory EXCEPT
        !.categories = categories,
        !.items = items,
        !.previous = IF req[p].op = "createCategory"
                     THEN [req |-> req[p], res |-> res[p],
                           categories |-> hist[p].categories]
                     ELSE NoPrevious]

\* a slot takes a new request once its last response has been sent
CanIssue(p) ==
    /\ pc[p] \in {"idle", "done"}
    /\ budget > 0

\* the request enters the handler, which runs up to its first await
Enter(p, r, label, locals) ==
    /\ budget' = budget - 1
    /\ req' = [req EXCEPT ![p] = r]
    /\ pc' = [pc EXCEPT ![p] = label]
    /\ loc' = [loc EXCEPT ![p] = locals]
    /\ res' = [res EXCEPT ![p] = NoResponse]
    /\ hist' = [hist EXCEPT ![p] = NewHistory(p)]

\* the request is answered before any await (validator or early return)
Reject(p, r, status) ==
    /\ budget' = budget - 1
    /\ req' = [req EXCEPT ![p] = r]
    /\ pc' = [pc EXCEPT ![p] = "done"]
    /\ loc' = [loc EXCEPT ![p] = NoLocals]
    /\ res' = [res EXCEPT ![p] = [status |-> status, count |-> 0]]
    /\ hist' = [hist EXCEPT ![p] = NewHistory(p)]

\* res.status(status).json(...)
Respond(p, status, count) ==
    /\ pc' = [pc EXCEPT ![p] = "done"]
    /\ res' = [res EXCEPT ![p] = [status |-> status, count |-> count]]


\* ------------------------------------------------------------------------
\* Schema validation and the unique indexes
\* ------------------------------------------------------------------------

\* the match validator of a slug path: it passes the empty string
SlugMatchValidator(slug) ==
    slug = <<>> \/ MatchesSlugPattern(slug)

\* the required validator of a string path
RequiredValidator(s) ==
    s # Undefined /\ s # <<>>

\* the unique index on Category.slug rejects the write (E11000)
CategorySlugTaken(slug, self) ==
    \E c \in DOMAIN categories : c # self /\ categories[c].slug = slug

\* the unique index on Item.slug rejects the write (E11000)
ItemSlugTaken(slug, self) ==
    \E i \in DOMAIN items : i # self /\ items[i].slug = slug

\* .replace(/[^a-z0-9]/g, "-")
NonAlnumToHyphen(s) ==
    [i \in 1..Len(s) |->
        IF s[i] \in Range(LowerSeq) \cup Range(DigitSeq) THEN s[i] ELSE "-"]

\* the slug derivation of the schema's pre-save hook
HookSlugify(s) ==
    StripEdgeHyphens(CollapseHyphens(NonAlnumToHyphen(ToLowerCase(s))))

\* ItemSchema.pre("save"): a slug for a document that has none but has a title
ItemPreSaveSlug(slug, title) ==
    IF ~Truthy(slug) /\ Truthy(title) THEN HookSlugify(title) ELSE slug

\* ------------------------------------------------------------------------
\* Request validation (middleware/validation.js)
\* ------------------------------------------------------------------------

\* validateCategory: name of 1..100 characters after trim, slug optional
\* but matching the pattern if given, status optional but one of the enum
ValidCategoryBody(name, slug, status) ==
    /\ name # Undefined /\ Len(Trim(name)) >= 1
    /\ slug = Undefined \/ MatchesSlugPattern(Trim(slug))
    /\ status \in CategoryStatuses \cup {NoStatus}

\* validateItemRelaxed: category present and a valid ObjectId, status
\* optional but one of the enum; slug is not checked
ValidItemBody(category, status) ==
    /\ category # NoId
    /\ category # MalformedId
    /\ status \in ItemStatuses \cup {NoStatus}

\* the sanitizer .trim() of a validated field rewrites the body
Sanitized(s) ==
    IF s = Undefined THEN Undefined ELSE Trim(s)

\* ------------------------------------------------------------------------
\* The denormalized counter: updateCategoryItemCount and the schema hooks
\* ------------------------------------------------------------------------

\* a counter write that is dropped
WriteItemCount_Dropped(cats, c, n) ==
    cats

\* Category.findByIdAndUpdate(categoryId, { itemCount })
WriteItemCount(cats, c, n) ==
    IF c \in DOMAIN cats THEN [cats EXCEPT ![c].itemCount = n] ELSE cats

\* the history notes one invocation per entry of the list
LogRecounts(h, list) ==
    [h EXCEPT !.recounts =
        [c \in CategoryIds |-> @[c] + Cardinality({ k \in DOMAIN list : list[k] = c })]]

\* the handler calls updateCategoryItemCount for every entry of the list
BeginRecount(l, list) ==
    [l EXCEPT !.categoryIds = list, !.pending = DOMAIN list, !.counted = <<>>]

\* updateCategoryItemCount: await Item.countDocuments({ category, status: "active" })
RecountCount(p) ==
    /\ pc[p] = "recount"
    /\ \E k \in loc[p].pending :
          loc' = [loc EXCEPT ![p].pending = @ \ {k},
                             ![p].counted =
                                 With(@, k, CountActiveItemsOf(loc[p].categoryIds[k]))]
    /\ UNCHANGED <<categories, items, nextCategoryId, nextItemId, budget, pc, req, res, hist>>

\* updateCategoryItemCount: await Category.findByIdAndUpdate(categoryId, { itemCount })
RecountWrite(p) ==
    /\ pc[p] = "recount"
    /\ \E k \in DOMAIN loc[p].counted :
          /\ categories' = WriteItemCount(categories, loc[p].categoryIds[k],
                                          loc[p].counted[k])
          /\ loc' = [loc EXCEPT ![p].counted = Without(@, k)]
    /\ UNCHANGED <<items, nextCategoryId, nextItemId, budget, pc, req, res, hist>>

\* the status of the success response of a handler
SuccessStatus(op) ==
    IF op \in {"createCategory", "createItem"} THEN 201 ELSE 200

\* every recount of the handler has returned: the success response is sent
RecountDone(p) ==
    /\ pc[p] = "recount"
    /\ loc[p].pending = {}
    /\ loc[p].counted = <<>>
    /\ Respond(p, SuccessStatus(req[p].op), 0)
    /\ UNCHANGED <<categories, items, nextCategoryId, nextItemId, budget, req, loc, hist>>

\* updateCategoryItemCount: countDocuments throws; the catch logs and returns
RecountCountFails(p) ==
    /\ pc[p] = "recount"
    /\ \E k \in loc[p].pending :
          loc' = [loc EXCEPT ![p].pending = @ \ {k}]
    /\ hist' = [hist EXCEPT ![p].counterFailed = TRUE]
    /\ UNCHANGED <<categories, items, nextCategoryId, nextItemId, budget, pc, req, res>>

\* updateCategoryItemCount: findByIdAndUpdate throws; the catch logs and returns
RecountWriteFails(p) ==
    /\ pc[p] = "recount"
    /\ \E k \in DOMAIN loc[p].counted :
          loc' = [loc EXCEPT ![p].counted = Without(@, k)]
    /\ hist' = [hist EXCEPT ![p].counterFailed = TRUE]
    /\ UNCHANGED <<categories, items, nextCategoryId, nextItemId, budget, pc, req, res>>

\* what the handler does once the schema's post hook has returned
AfterHook(p) ==
    /\ pc' = [pc EXCEPT ![p] = "recount"]
    /\ loc' = [loc EXCEPT ![p] = BeginRecount(@, <<loc[p].oldCategory>>)]
    /\ hist' = [hist EXCEPT ![p] = LogRecounts(@, <<loc[p].oldCategory>>)]

\* ItemSchema.post("save") / post("findOneAndDelete"): await countDocuments
HookCount(p) ==
    /\ pc[p] = "hookCount"
    /\ pc' = [pc EXCEPT ![p] = "hookWrite"]
    /\ loc' = [loc EXCEPT ![p].hookCount = CountActiveItemsOf(loc[p].oldCategory)]
    /\ UNCHANGED <<categories, items, nextCategoryId, nextItemId, budget, req, res, hist>>

\* ItemSchema.post("save") / post("findOneAndDelete"): await findByIdAndUpdate;
\* then the handler goes on to its own updateCategoryItemCount
HookWrite(p) ==
    /\ pc[p] = "hookWrite"
    /\ categories' = WriteItemCount(categories, loc[p].oldCategory, loc[p].hookCount)
    /\ AfterHook(p)
    /\ UNCHANGED <<items, nextCategoryId, nextItemId, budget, req, res>>

\* the hook's countDocuments or findByIdAndUpdate throws: save() or
\* findByIdAndDelete() rejects and the handler's catch answers 500
HookFails(p) ==
    /\ pc[p] \in {"hookCount", "hookWrite"}
    /\ Respond(p, 500, 0)
    /\ hist' = [hist EXCEPT ![p].counterFailed = TRUE]
    /\ UNCHANGED <<categories, items, nextCategoryId, nextItemId, budget, req, loc>>


\* ------------------------------------------------------------------------
\* Category handlers (controllers/categoryController.js)
\* ------------------------------------------------------------------------

\* ids are handed out while the pool lasts; every create in flight needs one
CanCreateCategory ==
    nextCategoryId
      + Cardinality({ q \in Procs : pc[q] \in {"cc_probe", "cc_save"} }) <= SeededCategories + MaxNewCategories

\* the slug a category handler works with: body.slug, else derived from the name
CategorySlugOf(name, slug) ==
    IF ~Truthy(slug) /\ Truthy(name) THEN Slugify(name) ELSE slug

\* POST /api/categories: validateCategory, then createCategory up to its probe
CreateCategoryStart(p) ==
    /\ CanIssue(p)
    /\ CanCreateCategory
    /\ \E body \in CategoryBodies :
          LET r == [NoRequest EXCEPT !.op = "createCategory",
                                     !.text = Sanitized(body.name),
                                     !.slug = Sanitized(body.slug),
                                     !.status = body.status, !.fieldsOk = body.fieldsOk]
              categorySlug == CategorySlugOf(r.text, r.slug)
          IN  IF ~ValidCategoryBody(body.name, body.slug, body.status)
              THEN Reject(p, r, 400)
              ELSE IF ~Truthy(categorySlug) THEN Reject(p, r, 400)
              ELSE Enter(p, r, "cc_probe",
                         [NoLocals EXCEPT !.slug = categorySlug,
                                          !.uniqueSlug = categorySlug, !.counter = 1])
    /\ UNCHANGED <<categories, items, nextCategoryId, nextItemId>>

\* a probe that is made once: the handler goes on with the slug it has
CreateCategoryProbe_Once(p) ==
    /\ pc[p] = "cc_probe"
    /\ pc' = [pc EXCEPT ![p] = "cc_save"]
    /\ UNCHANGED <<categories, items, nextCategoryId, nextItemId, budget, req, loc, res, hist>>

\* while (await Category.findOne({ slug: uniqueSlug })) { ... }
CreateCategoryProbe(p) ==
    /\ pc[p] = "cc_probe"
    /\ IF CategoryWithSlug(loc[p].uniqueSlug) # {}
       THEN /\ loc' = [loc EXCEPT ![p].uniqueSlug = Suffixed(loc[p].slug, loc[p].counter),
                                  ![p].counter = @ + 1]
            /\ pc' = pc
       ELSE /\ pc' = [pc EXCEPT ![p] = "cc_save"]
            /\ loc' = loc
    /\ UNCHANGED <<categories, items, nextCategoryId, nextItemId, budget, req, res, hist>>

\* the document new Category({...}) builds: setters and defaults applied
NewCategory(slug, status) ==
    [slug |-> SlugSetters(slug),
     status |-> IF status = NoStatus THEN "active" ELSE status,
     itemCount |-> 0]

\* category.validate(): required name and description, slug required and matching
CategoryValid(doc, fieldsOk) ==
    /\ fieldsOk
    /\ RequiredValidator(doc.slug)
    /\ SlugMatchValidator(doc.slug)
    /\ doc.status \in CategoryStatuses

\* await category.save(): validation, then the insert under the unique index
CreateCategorySave(p) ==
    /\ pc[p] = "cc_save"
    /\ LET doc == NewCategory(loc[p].uniqueSlug, req[p].status)
       IN  IF ~CategoryValid(doc, req[p].fieldsOk) \/ CategorySlugTaken(doc.slug, NoId)
           THEN /\ Respond(p, 500, 0)
                /\ UNCHANGED <<categories, nextCategoryId>>
           ELSE /\ categories' = With(categories, nextCategoryId, doc)
                /\ nextCategoryId' = nextCategoryId + 1
                /\ Respond(p, 201, 0)
    /\ UNCHANGED <<items, nextItemId, budget, req, loc, hist>>

\* PUT /api/categories/:id: validateObjectId, validateCategory, then updateCategory
UpdateCategoryStart(p) ==
    /\ CanIssue(p)
    /\ \E id \in KnownCategoryIds \cup {UnknownId}, body \in CategoryBodies :
          LET r == [NoRequest EXCEPT !.op = "updateCategory", !.id = id,
                                     !.text = Sanitized(body.name),
                                     !.slug = Sanitized(body.slug),
                                     !.status = body.status, !.fieldsOk = body.fieldsOk]
              categorySlug == CategorySlugOf(r.text, r.slug)
          IN  IF ~ValidCategoryBody(body.name, body.slug, body.status)
              THEN Reject(p, r, 400)
              ELSE Enter(p, r, IF Truthy(categorySlug) THEN "uc_probe" ELSE "uc_update",
                         [NoLocals EXCEPT !.slug = categorySlug])
    /\ UNCHANGED <<categories, items, nextCategoryId, nextItemId>>

\* a probe that does not exclude the category's own id
UpdateCategoryProbe_IncludingSelf(p) ==
    /\ pc[p] = "uc_probe"
    /\ IF CategoryWithSlug(loc[p].slug) # {}
       THEN Respond(p, 400, 0)
       ELSE pc' = [pc EXCEPT ![p] = "uc_update"] /\ res' = res
    /\ UNCHANGED <<categories, items, nextCategoryId, nextItemId, budget, req, loc, hist>>

\* await Category.findOne({ slug: categorySlug, _id: { $ne: id } })
UpdateCategoryProbe(p) ==
    /\ pc[p] = "uc_probe"
    /\ IF CategoryWithSlug(loc[p].slug) \ {req[p].id} # {}
       THEN Respond(p, 400, 0)
       ELSE pc' = [pc EXCEPT ![p] = "uc_update"] /\ res' = res
    /\ UNCHANGED <<categories, items, nextCategoryId, nextItemId, budget, req, loc, hist>>

\* the update validators (runValidators: true) of updateCategory's $set
CategoryUpdateValid(slug, status, fieldsOk) ==
    /\ fieldsOk
    /\ slug = Undefined \/ (RequiredValidator(slug) /\ SlugMatchValidator(slug))
    /\ status \in CategoryStatuses \cup {NoStatus}

\* the document after the $set: undefined fields are not written
UpdatedCategory(doc, slug, status) ==
    [doc EXCEPT !.slug = IF slug = Undefined THEN @ ELSE slug,
                !.status = IF status = NoStatus THEN @ ELSE status]

UpdateCategoryUpdate_Blind(p) ==
    /\ pc[p] = "uc_update"
    /\ LET id == req[p].id
           slug == SlugSetters(loc[p].slug)
       IN  IF ~CategoryUpdateValid(slug, req[p].status, req[p].fieldsOk)
           THEN Respond(p, 500, 0) /\ UNCHANGED categories
           ELSE IF ~CategoryExists(id)
           THEN Respond(p, 200, 0) /\ UNCHANGED categories
           ELSE IF slug # Undefined /\ CategorySlugTaken(slug, id)
           THEN Respond(p, 500, 0) /\ UNCHANGED categories
           ELSE /\ categories' =
                     [categories EXCEPT ![id] = UpdatedCategory(@, slug, req[p].status)]
                /\ Respond(p, 200, 0)
    /\ UNCHANGED <<items, nextCategoryId, nextItemId, budget, req, loc, hist>>

\* await Category.findByIdAndUpdate(id, {...}, { new: true, runValidators: true })
UpdateCategoryUpdate(p) ==
    /\ pc[p] = "uc_update"
    /\ LET id == req[p].id
           slug == SlugSetters(loc[p].slug)
       IN  IF ~CategoryUpdateValid(slug, req[p].status, req[p].fieldsOk)
           THEN Respond(p, 500, 0) /\ UNCHANGED categories
           ELSE IF ~CategoryExists(id)
           THEN Respond(p, 404, 0) /\ UNCHANGED categories
           ELSE IF slug # Undefined /\ CategorySlugTaken(slug, id)
           THEN Respond(p, 500, 0) /\ UNCHANGED categories
           ELSE /\ categories' =
                     [categories EXCEPT ![id] = UpdatedCategory(@, slug, req[p].status)]
                /\ Respond(p, 200, 0)
    /\ UNCHANGED <<items, nextCategoryId, nextItemId, budget, req, loc, hist>>

\* DELETE /api/categories/:id: validateObjectId, then deleteCategory
DeleteCategoryStart(p) ==
    /\ CanIssue(p)
    /\ \E id \in KnownCategoryIds \cup {UnknownId} :
          Enter(p, [NoRequest EXCEPT !.op = "deleteCategory", !.id = id],
                "dc_count", NoLocals)
    /\ UNCHANGED <<categories, items, nextCategoryId, nextItemId>>

\* a deleteCategory that does not look at the items
DeleteCategoryCount_Unguarded(p) ==
    /\ pc[p] = "dc_count"
    /\ pc' = [pc EXCEPT ![p] = "dc_delete"]
    /\ UNCHANGED <<categories, items, nextCategoryId, nextItemId, budget, req, loc, hist, res>>

\* const itemCount = await Item.countDocuments({ category: id })
DeleteCategoryCount(p) ==
    /\ pc[p] = "dc_count"
    /\ LET itemCount == CountItemsOf(req[p].id)
       IN  IF itemCount > 0
           THEN Respond(p, 400, itemCount)
           ELSE pc' = [pc EXCEPT ![p] = "dc_delete"] /\ res' = res
    /\ UNCHANGED <<categories, items, nextCategoryId, nextItemId, budget, req, loc, hist>>

\* const category = await Category.findByIdAndDelete(id)
DeleteCategoryDelete(p) ==
    /\ pc[p] = "dc_delete"
    /\ IF CategoryExists(req[p].id)
       THEN categories' = Without(categories, req[p].id) /\ Respond(p, 200, 0)
       ELSE UNCHANGED categories /\ Respond(p, 404, 0)
    /\ UNCHANGED <<items, nextCategoryId, nextItemId, budget, req, loc, hist>>


\* ------------------------------------------------------------------------
\* Item handlers (controllers/itemController.js)
\* ------------------------------------------------------------------------

CanCreateItem ==
    nextItemId
      + Cardinality({ q \in Procs :
                        pc[q] \in {"ci_findCategory", "ci_probe", "ci_save"} }) <= MaxItems

\* a handler that makes a slug up for a body without slug and title
ItemSlugOf_Defaulting(title, slug) ==
    IF ~Truthy(slug)
    THEN IF Truthy(title) THEN Slugify(title) ELSE <<"i", "t", "e", "m">>
    ELSE slug

\* the slug an item handler works with: body.slug, else derived from the title
ItemSlugOf(title, slug) ==
    IF ~Truthy(slug) /\ Truthy(title) THEN Slugify(title) ELSE slug

\* POST /api/items: validateItemRelaxed, then createItem up to its first await
CreateItemStart(p) ==
    /\ CanIssue(p)
    /\ CanCreateItem
    /\ \E category \in KnownCategoryIds \cup {UnknownId, NoId, MalformedId},
          body \in ItemBodies :
          LET r == [NoRequest EXCEPT !.op = "createItem", !.category = category,
                                     !.text = Sanitized(body.title), !.slug = body.slug,
                                     !.status = body.status,
                                     !.characters = body.characters]
              itemSlug == ItemSlugOf(r.text, r.slug)
          IN  IF ~ValidItemBody(category, body.status) THEN Reject(p, r, 400)
              ELSE IF ~Truthy(itemSlug) THEN Reject(p, r, 400)
              ELSE Enter(p, r, "ci_findCategory", [NoLocals EXCEPT !.slug = itemSlug])
    /\ UNCHANGED <<categories, items, nextCategoryId, nextItemId>>

\* a createItem that does not look the category up
CreateItemFindCategory_Unchecked(p) ==
    /\ pc[p] = "ci_findCategory"
    /\ pc' = [pc EXCEPT ![p] = "ci_probe"]
    /\ loc' = [loc EXCEPT ![p].uniqueSlug = loc[p].slug, ![p].counter = 1]
    /\ UNCHANGED <<categories, items, nextCategoryId, nextItemId, budget, req, hist, res>>

\* const categoryExists = await Category.findById(category)
CreateItemFindCategory(p) ==
    /\ pc[p] = "ci_findCategory"
    /\ IF ~CategoryExists(req[p].category)
       THEN Respond(p, 400, 0) /\ loc' = loc
       ELSE /\ pc' = [pc EXCEPT ![p] = "ci_probe"]
            /\ loc' = [loc EXCEPT ![p].uniqueSlug = loc[p].slug, ![p].counter = 1]
            /\ res' = res
    /\ UNCHANGED <<categories, items, nextCategoryId, nextItemId, budget, req, hist>>

\* while (await Item.findOne({ slug: uniqueSlug })) { ... }
CreateItemProbe(p) ==
    /\ pc[p] = "ci_probe"
    /\ IF ItemWithSlug(loc[p].uniqueSlug) # {}
       THEN /\ loc' = [loc EXCEPT ![p].uniqueSlug = Suffixed(loc[p].slug, loc[p].counter),
                                  ![p].counter = @ + 1]
            /\ pc' = pc
       ELSE /\ pc' = [pc EXCEPT ![p] = "ci_save"]
            /\ loc' = loc
    /\ UNCHANGED <<categories, items, nextCategoryId, nextItemId, budget, req, res, hist>>

\* characters || []: an array, empty or not, is truthy
CharactersOrEmpty(characters) ==
    IF characters = Undefined THEN <<>> ELSE characters

\* the document new Item({...}) builds: setters applied, status: status || "draft",
\* characters: characters || []
NewItem(slug, category, status, characters) ==
    [slug |-> SlugSetters(slug),
     category |-> category,
     status |-> IF status = NoStatus THEN "draft" ELSE status,
     characters |-> CharactersOrEmpty(characters)]

\* item.validate(): the slug pattern and the status enum
ItemValid(doc) ==
    /\ SlugMatchValidator(doc.slug)
    /\ doc.status \in ItemStatuses

\* await item.save(): validation, the pre-save hook, then the insert under
\* the unique index; the post-save hook follows
CreateItemSave(p) ==
    /\ pc[p] = "ci_save"
    /\ LET built == NewItem(loc[p].uniqueSlug, req[p].category, req[p].status,
                            req[p].characters)
           doc == [built EXCEPT !.slug = ItemPreSaveSlug(built.slug, req[p].text)]
       IN  IF ~ItemValid(built) \/ ItemSlugTaken(doc.slug, NoId)
           THEN /\ Respond(p, 500, 0)
                /\ UNCHANGED <<items, nextItemId, loc, hist>>
           ELSE /\ items' = With(items, nextItemId, doc)
                /\ nextItemId' = nextItemId + 1
                /\ pc' = [pc EXCEPT ![p] = "hookCount"]
                /\ loc' = [loc EXCEPT ![p].oldCategory = doc.category]
                /\ hist' = [hist EXCEPT ![p] =
                              [LogRecounts(@, <<doc.category>>) EXCEPT !.mutated = TRUE]]
                /\ res' = res
    /\ UNCHANGED <<categories, nextCategoryId, budget, req>>

\* PUT /api/items/:id: validateObjectId, validateItemRelaxed, then updateItem
UpdateItemStart(p) ==
    /\ CanIssue(p)
    /\ \E id \in KnownItemIds \cup {UnknownId},
          category \in KnownCategoryIds \cup {UnknownId, NoId}, body \in ItemUpdateBodies :
          LET r == [NoRequest EXCEPT !.op = "updateItem", !.id = id,
                                     !.category = category,
                                     !.text = Sanitized(body.title), !.slug = body.slug,
                                     !.status = body.status,
                                     !.characters = body.characters]
          IN  IF ~ValidItemBody(category, body.status) THEN Reject(p, r, 400)
              ELSE Enter(p, r, "ui_findItem", NoLocals)
    /\ UNCHANGED <<categories, items, nextCategoryId, nextItemId>>

\* const currentItem = await Item.findById(id)
UpdateItemFindItem(p) ==
    /\ pc[p] = "ui_findItem"
    /\ IF ~ItemExists(req[p].id)
       THEN Respond(p, 404, 0) /\ loc' = loc
       ELSE LET currentItem == items[req[p].id]
                derived == ItemSlugOf(req[p].text, req[p].slug)
                itemSlug == IF ~Truthy(derived) THEN currentItem.slug ELSE derived
            IN  /\ loc' = [loc EXCEPT ![p].slug = itemSlug,
                                      ![p].currentSlug = currentItem.slug,
                                      ![p].oldCategory = currentItem.category]
                /\ pc' = [pc EXCEPT ![p] =
                            IF req[p].category # NoId
                                 /\ req[p].category # currentItem.category
                            THEN "ui_findCategory"
                            ELSE IF Truthy(itemSlug) /\ itemSlug # currentItem.slug
                            THEN "ui_probe"
                            ELSE "ui_update"]
                /\ res' = res
    /\ UNCHANGED <<categories, items, nextCategoryId, nextItemId, budget, req, hist>>

\* const categoryExists = await Category.findById(category)
UpdateItemFindCategory(p) ==
    /\ pc[p] = "ui_findCategory"
    /\ IF ~CategoryExists(req[p].category)
       THEN Respond(p, 400, 0)
       ELSE /\ pc' = [pc EXCEPT ![p] =
                        IF Truthy(loc[p].slug) /\ loc[p].slug # loc[p].currentSlug
                        THEN "ui_probe" ELSE "ui_update"]
            /\ res' = res
    /\ UNCHANGED <<categories, items, nextCategoryId, nextItemId, budget, req, loc, hist>>

\* await Item.findOne({ slug: itemSlug, _id: { $ne: id } })
UpdateItemProbe(p) ==
    /\ pc[p] = "ui_probe"
    /\ IF ItemWithSlug(loc[p].slug) \ {req[p].id} # {}
       THEN Respond(p, 400, 0)
       ELSE pc' = [pc EXCEPT ![p] = "ui_update"] /\ res' = res
    /\ UNCHANGED <<categories, items, nextCategoryId, nextItemId, budget, req, loc, hist>>

\* the update validators (runValidators: true) of an item's $set
ItemUpdateValid(slug, status) ==
    /\ slug = Undefined \/ SlugMatchValidator(slug)
    /\ status \in ItemStatuses \cup {NoStatus}

\* the document after the $set: undefined fields are not written
UpdatedItem(doc, slug, category, status) ==
    [doc EXCEPT !.slug = IF slug = Undefined THEN @ ELSE slug,
                !.category = IF category = NoId THEN @ ELSE category,
                !.status = IF status = NoStatus THEN @ ELSE status]

\* updateData of updateItem: characters: characters || [] is always written
UpdateData(doc, slug, category, status, characters) ==
    [UpdatedItem(doc, slug, category, status)
        EXCEPT !.characters = CharactersOrEmpty(characters)]

\* a recount of the old category alone
UpdateItemRecounts_OldOnly(oldCategory, category) ==
    <<oldCategory>>

\* the categories updateItem recounts after its write
UpdateItemRecounts(oldCategory, category) ==
    IF category # NoId /\ category # oldCategory
    THEN <<oldCategory, category>>
    ELSE <<oldCategory>>

\* await Item.findByIdAndUpdate(id, updateData, { new: true, runValidators: true })
UpdateItemUpdate(p) ==
    /\ pc[p] = "ui_update"
    /\ LET id == req[p].id
           slug == SlugSetters(loc[p].slug)
           list == UpdateItemRecounts(loc[p].oldCategory, req[p].category)
       IN  IF ~ItemUpdateValid(slug, req[p].status)
           THEN Respond(p, 500, 0) /\ UNCHANGED <<items, loc, hist>>
           ELSE IF ~ItemExists(id)
           THEN Respond(p, 404, 0) /\ UNCHANGED <<items, loc, hist>>
           ELSE IF ItemSlugTaken(slug, id)
           THEN Respond(p, 500, 0) /\ UNCHANGED <<items, loc, hist>>
           ELSE /\ items' = [items EXCEPT ![id] =
                               UpdateData(@, slug, req[p].category, req[p].status,
                                          req[p].characters)]
                /\ pc' = [pc EXCEPT ![p] = "recount"]
                /\ loc' = [loc EXCEPT ![p] = BeginRecount(@, list)]
                /\ hist' = [hist EXCEPT ![p] =
                              [LogRecounts(@, list) EXCEPT !.mutated = TRUE]]
                /\ res' = res
    /\ UNCHANGED <<categories, nextCategoryId, nextItemId, budget, req>>


\* DELETE /api/items/:id: validateObjectId, then deleteItem
DeleteItemStart(p) ==
    /\ CanIssue(p)
    /\ \E id \in KnownItemIds \cup {UnknownId} :
          Enter(p, [NoRequest EXCEPT !.op = "deleteItem", !.id = id],
                "di_delete", NoLocals)
    /\ UNCHANGED <<categories, items, nextCategoryId, nextItemId>>

\* const item = await Item.findByIdAndDelete(id); the post-findOneAndDelete
\* hook follows when a document was deleted
DeleteItemDelete(p) ==
    /\ pc[p] = "di_delete"
    /\ IF ~ItemExists(req[p].id)
       THEN Respond(p, 404, 0) /\ UNCHANGED <<items, loc, hist>>
       ELSE /\ items' = Without(items, req[p].id)
            /\ pc' = [pc EXCEPT ![p] = "hookCount"]
            /\ loc' = [loc EXCEPT ![p].oldCategory = items[req[p].id].category]
            /\ hist' = [hist EXCEPT ![p] =
                          [LogRecounts(@, <<items[req[p].id].category>>)
                              EXCEPT !.mutated = TRUE]]
            /\ res' = res
    /\ UNCHANGED <<categories, nextCategoryId, nextItemId, budget, req>>

\* a set as a list, in ascending order
RECURSIVE SortedSeq(_)
SortedSeq(S) ==
    IF S = {} THEN <<>>
    ELSE LET m == CHOOSE x \in S : \A y \in S : x <= y
         IN  <<m>> \o SortedSeq(S \ {m})

\* the lists of ids a bulk delete request may carry: up to n ids of S, each
\* once and in ascending order ($in looks at neither order nor repetition)
IdLists(S, n) ==
    { SortedSeq(T) : T \in { U \in SUBSET S : Cardinality(U) <= n } }

\* Item.find({ _id: { $in: ids } })
ItemsIn(ids) ==
    { i \in DOMAIN items : i \in Range(ids) }

\* one entry for every item found, duplicates kept
DistinctCategories_PerItem(found) ==
    [k \in 1..Cardinality(found) |-> items[SortedSeq(found)[k]].category]

\* [...new Set(items.map((item) => item.category.toString()))]
DistinctCategories(found) ==
    SortedSeq({ items[i].category : i \in found })

\* DELETE /api/items: bulkDeleteItems up to its first await (no validator)
BulkDeleteStart(p) ==
    /\ CanIssue(p)
    /\ \E ids \in IdLists(KnownItemIds \cup {UnknownId}, MaxBulkIds) :
          LET r == [NoRequest EXCEPT !.op = "bulkDeleteItems", !.ids = ids]
          IN  IF Len(ids) = 0 THEN Reject(p, r, 400)
              ELSE Enter(p, r, "bd_find", NoLocals)
    /\ UNCHANGED <<categories, items, nextCategoryId, nextItemId>>

\* const items = await Item.find({ _id: { $in: ids } }); categoryIds = ...
BulkDeleteFind(p) ==
    /\ pc[p] = "bd_find"
    /\ LET found == ItemsIn(req[p].ids)
       IN  loc' = [loc EXCEPT ![p].found = found,
                              ![p].categoryIds = DistinctCategories(found)]
    /\ pc' = [pc EXCEPT ![p] = "bd_delete"]
    /\ UNCHANGED <<categories, items, nextCategoryId, nextItemId, budget, req, res, hist>>

\* await Item.deleteMany({ _id: { $in: ids } }); then one recount per entry
BulkDeleteDelete(p) ==
    /\ pc[p] = "bd_delete"
    /\ items' = [i \in DOMAIN items \ Range(req[p].ids) |-> items[i]]
    /\ pc' = [pc EXCEPT ![p] = "recount"]
    /\ loc' = [loc EXCEPT ![p] = BeginRecount(@, loc[p].categoryIds)]
    /\ hist' = [hist EXCEPT ![p] =
                  [LogRecounts(@, loc[p].categoryIds) EXCEPT !.mutated = TRUE]]
    /\ UNCHANGED <<categories, nextCategoryId, nextItemId, budget, req, res>>

\* the status values a PATCH body may carry: the route does not validate them
StatusInputs ==
    ItemStatuses \cup {NoStatus, "archived"}

\* PATCH /api/items/:id/status: validateObjectId, then updateItemStatus
UpdateItemStatusStart(p) ==
    /\ CanIssue(p)
    /\ \E id \in KnownItemIds \cup {UnknownId}, status \in StatusInputs :
          Enter(p, [NoRequest EXCEPT !.op = "updateItemStatus", !.id = id,
                                     !.status = status],
                "us_update", NoLocals)
    /\ UNCHANGED <<categories, items, nextCategoryId, nextItemId>>

\* await Item.findByIdAndUpdate(id, { status }, { new: true, runValidators: true })
\*    .populate("category", "name slug"); then item.category._id is read
UpdateItemStatusUpdate(p) ==
    /\ pc[p] = "us_update"
    /\ LET id == req[p].id
       IN  IF ~ItemUpdateValid(Undefined, req[p].status)
           THEN Respond(p, 500, 0) /\ UNCHANGED <<items, loc, hist>>
           ELSE IF ~ItemExists(id)
           THEN Respond(p, 404, 0) /\ UNCHANGED <<items, loc, hist>>
           ELSE /\ items' = [items EXCEPT ![id] =
                               UpdatedItem(@, Undefined, NoId, req[p].status)]
                /\ IF ~CategoryExists(items[id].category)
                   THEN /\ Respond(p, 500, 0)
                        /\ loc' = loc
                        /\ hist' = [hist EXCEPT ![p].mutated = TRUE]
                   ELSE /\ pc' = [pc EXCEPT ![p] = "recount"]
                        /\ loc' = [loc EXCEPT ![p] =
                                     BeginRecount(@, <<items[id].category>>)]
                        /\ hist' = [hist EXCEPT ![p] =
                                      [LogRecounts(@, <<items[id].category>>)
                                          EXCEPT !.mutated = TRUE]]
                        /\ res' = res
    /\ UNCHANGED <<categories, nextCategoryId, nextItemId, budget, req>>

\* ------------------------------------------------------------------------
\* Specifications
\* ------------------------------------------------------------------------

\* one step of the request in slot p
\* the steps of the handlers after their first await
HandlerStep(p) ==
    \/ CreateCategoryProbe(p) /\ UNCHANGED <<authVars, limitVars, listVars, slugVars>>
    \/ CreateCategorySave(p) /\ UNCHANGED <<authVars, limitVars, listVars, slugVars>>
    \/ UpdateCategoryProbe(p) /\ UNCHANGED <<authVars, limitVars, listVars, slugVars>>
    \/ UpdateCategoryUpdate(p) /\ UNCHANGED <<authVars, limitVars, listVars, slugVars>>
    \/ DeleteCategoryCount(p) /\ UNCHANGED <<authVars, limitVars, listVars, slugVars>>
    \/ DeleteCategoryDelete(p) /\ UNCHANGED <<authVars, limitVars, listVars, slugVars>>
    \/ CreateItemFindCategory(p) /\ UNCHANGED <<authVars, limitVars, listVars, slugVars>>
    \/ CreateItemProbe(p) /\ UNCHANGED <<authVars, limitVars, listVars, slugVars>>
    \/ CreateItemSave(p) /\ UNCHANGED <<authVars, limitVars, listVars, slugVars>>
    \/ UpdateItemFindItem(p) /\ UNCHANGED <<authVars, limitVars, listVars, slugVars>>
    \/ UpdateItemFindCategory(p) /\ UNCHANGED <<authVars, limitVars, listVars, slugVars>>
    \/ UpdateItemProbe(p) /\ UNCHANGED <<authVars, limitVars, listVars, slugVars>>
    \/ UpdateItemUpdate(p) /\ UNCHANGED <<authVars, limitVars, listVars, slugVars>>
    \/ DeleteItemDelete(p) /\ UNCHANGED <<authVars, limitVars, listVars, slugVars>>
    \/ BulkDeleteFind(p) /\ UNCHANGED <<authVars, limitVars, listVars, slugVars>>
    \/ BulkDeleteDelete(p) /\ UNCHANGED <<authVars, limitVars, listVars, slugVars>>
    \/ UpdateItemStatusUpdate(p) /\ UNCHANGED <<authVars, limitVars, listVars, slugVars>>
    \/ HookCount(p) /\ UNCHANGED <<authVars, limitVars, listVars, slugVars>>
    \/ HookWrite(p) /\ UNCHANGED <<authVars, limitVars, listVars, slugVars>>
    \/ RecountCount(p) /\ UNCHANGED <<authVars, limitVars, listVars, slugVars>>
    \/ RecountWrite(p) /\ UNCHANGED <<authVars, limitVars, listVars, slugVars>>
    \/ RecountDone(p) /\ UNCHANGED <<authVars, limitVars, listVars, slugVars>>

\* a request arrives and runs up to its first await, or a handler goes on
Step(p) ==
    \/ CreateCategoryStart(p) /\ UNCHANGED <<authVars, limitVars, listVars, slugVars>>
    \/ UpdateCategoryStart(p) /\ UNCHANGED <<authVars, limitVars, listVars, slugVars>>
    \/ DeleteCategoryStart(p) /\ UNCHANGED <<authVars, limitVars, listVars, slugVars>>
    \/ CreateItemStart(p) /\ UNCHANGED <<authVars, limitVars, listVars, slugVars>>
    \/ UpdateItemStart(p) /\ UNCHANGED <<authVars, limitVars, listVars, slugVars>>
    \/ DeleteItemStart(p) /\ UNCHANGED <<authVars, limitVars, listVars, slugVars>>
    \/ BulkDeleteStart(p) /\ UNCHANGED <<authVars, limitVars, listVars, slugVars>>
    \/ UpdateItemStatusStart(p) /\ UNCHANGED <<authVars, limitVars, listVars, slugVars>>
    \/ HandlerStep(p)

\* a counter operation fails
FailStep(p) ==
    \/ HookFails(p) /\ UNCHANGED <<authVars, limitVars, listVars, slugVars>>
    \/ RecountCountFails(p) /\ UNCHANGED <<authVars, limitVars, listVars, slugVars>>
    \/ RecountWriteFails(p) /\ UNCHANGED <<authVars, limitVars, listVars, slugVars>>

\* requests are handled concurrently; the store never fails
Next ==
    \E p \in Procs : Step(p)

Spec ==
    Init /\ [][Next]_vars

\* requests run one at a time; the store never fails
NextSeq ==
    Step(1)

SpecSeq ==
    InitSeq /\ [][NextSeq]_vars

\* requests run one at a time; the counter's store operations may fail
NextFail ==
    Step(1) \/ FailStep(1)

SpecFail ==
    InitSeq /\ [][NextFail]_vars

\* ------------------------------------------------------------------------
\* Rate limiting (middleware/rateLimit.js) in front of the mutating routes
\* ------------------------------------------------------------------------

MaxLimitedRequests == 1

ApiLimiterMax == 100

CreateLimiterMax == 20

LimiterMax(l) ==
    IF l = "api" THEN ApiLimiterMax ELSE CreateLimiterMax

\* POST /api/categories and POST /api/items stand behind createLimiter
CreateOps == {"createCategory", "createItem"}

MutatingOps ==
    {"createCategory", "updateCategory", "deleteCategory", "createItem",
     "updateItem", "deleteItem", "bulkDeleteItems", "updateItemStatus"}

\* the limiter counts the request of address a
Count(h, l, a) ==
    [h EXCEPT ![l][a] = @ + 1]

AfterLimiters_ApiOnly(op, a) ==
    [hits |-> Count(hits, "api", a),
     admitted |-> Count(hits, "api", a)["api"][a] <= ApiLimiterMax]

\* apiLimiter on /api, then createLimiter on the create routes: each counts
\* the request and answers 429 when its count exceeds max; a request that
\* apiLimiter refuses never reaches createLimiter
AfterLimiters(op, a) ==
    LET h1 == Count(hits, "api", a)
        h2 == Count(h1, "create", a)
    IN  IF h1["api"][a] > ApiLimiterMax THEN [hits |-> h1, admitted |-> FALSE]
        ELSE IF op \notin CreateOps THEN [hits |-> h1, admitted |-> TRUE]
        ELSE [hits |-> h2, admitted |-> h2["create"][a] <= CreateLimiterMax]

\* the limiters let the request of address a through to the validators
Admitted(p, op, a) ==
    /\ AfterLimiters(op, a).admitted
    /\ hits' = AfterLimiters(op, a).hits
    /\ ip' = [ip EXCEPT ![p] = a]
    /\ arrival' = [arrival EXCEPT ![p] = hits]

\* a limiter answers 429: no validator and no handler runs
TooManyRequests(p) ==
    /\ CanIssue(p)
    /\ \E a \in Sources, op \in MutatingOps :
          /\ ~AfterLimiters(op, a).admitted
          /\ hits' = AfterLimiters(op, a).hits
          /\ ip' = [ip EXCEPT ![p] = a]
          /\ arrival' = [arrival EXCEPT ![p] = hits]
          /\ Reject(p, [NoRequest EXCEPT !.op = op], 429)
    /\ UNCHANGED <<categories, items, nextCategoryId, nextItemId>>

LimitedStep(p) ==
    \/ \E a \in Sources : Admitted(p, "createCategory", a) /\ CreateCategoryStart(p) /\ UNCHANGED <<authVars, listVars, slugVars>>
    \/ \E a \in Sources : Admitted(p, "updateCategory", a) /\ UpdateCategoryStart(p) /\ UNCHANGED <<authVars, listVars, slugVars>>
    \/ \E a \in Sources : Admitted(p, "deleteCategory", a) /\ DeleteCategoryStart(p) /\ UNCHANGED <<authVars, listVars, slugVars>>
    \/ \E a \in Sources : Admitted(p, "createItem", a) /\ CreateItemStart(p) /\ UNCHANGED <<authVars, listVars, slugVars>>
    \/ \E a \in Sources : Admitted(p, "updateItem", a) /\ UpdateItemStart(p) /\ UNCHANGED <<authVars, listVars, slugVars>>
    \/ \E a \in Sources : Admitted(p, "deleteItem", a) /\ DeleteItemStart(p) /\ UNCHANGED <<authVars, listVars, slugVars>>
    \/ \E a \in Sources : Admitted(p, "bulkDeleteItems", a) /\ BulkDeleteStart(p) /\ UNCHANGED <<authVars, listVars, slugVars>>
    \/ \E a \in Sources : Admitted(p, "updateItemStatus", a) /\ UpdateItemStatusStart(p) /\ UNCHANGED <<authVars, listVars, slugVars>>
    \/ TooManyRequests(p) /\ UNCHANGED <<authVars, listVars, slugVars>>
    \/ HandlerStep(p)

\* the counts the limiters may hold for the first address when the run
\* starts: nothing counted yet, one request short of the maximum, or the
\* maximum; the second address has sent nothing
InitialHits ==
    { [l \in Limiters |-> [a \in Sources |->
          IF a = 1 THEN LimiterMax(l) - short[l] ELSE 0]] :
        short \in [Limiters -> {0, 1}] }
    \cup {NoHits}

InitLimit ==
    /\ \E stored \in InitialItems : InitStore(stored)
    /\ budget = MaxLimitedRequests
    /\ hits \in InitialHits
    /\ ip = [p \in Procs |-> NoSource]
    /\ arrival = [p \in Procs |-> NoHits]
    /\ AuthIdle /\ ListIdle /\ SlugIdle

\* requests run one at a time behind the limiters, all within one window of
\* each limiter; the store never fails
NextLimit ==
    LimitedStep(1)

SpecLimit ==
    InitLimit /\ [][NextLimit]_vars

\* ------------------------------------------------------------------------
\* Auth: validators, the authenticate and authorize middleware, handlers
\* ------------------------------------------------------------------------

MaxAuthRequests == 2

Letters == Range(LowerSeq) \cup Range(UpperSeq)
Digits == Range(DigitSeq)

\* isEmail, as far as the addresses drawn here are concerned: one "@"
\* after a local part, and a dot inside the domain
IsEmail(s) ==
    /\ s # Undefined
    /\ Cardinality({ i \in DOMAIN s : s[i] = "@" }) = 1
    /\ \A i \in DOMAIN s : s[i] \in Letters \cup Digits \cup {"@", "."}
    /\ \E i, j \in DOMAIN s :
          /\ s[i] = "@" /\ s[j] = "."
          /\ 1 < i /\ i + 1 < j /\ j < Len(s)

\* normalizeEmail on an address outside the mail providers it special-cases
NormalizeEmail(s) ==
    ToLowerCase(s)

\* the email path of AdminSchema: trim, lowercase
EmailSetters(s) ==
    IF s = Undefined THEN Undefined ELSE ToLowerCase(Trim(s))

\* the username path of AdminSchema: trim
UsernameSetters(s) ==
    IF s = Undefined THEN Undefined ELSE Trim(s)

\* body("username").trim().isLength({min: 3, max: 30}).matches(/^[a-zA-Z0-9_]+$/)
ValidUsername(s) ==
    /\ s # Undefined
    /\ Len(Trim(s)) >= 3 /\ Len(Trim(s)) <= 30
    /\ \A i \in DOMAIN Trim(s) : Trim(s)[i] \in Letters \cup Digits \cup {"_"}

\* body("password").isLength({min: 6}).matches(/^(?=.*[a-z])(?=.*[A-Z])(?=.*\d)/)
ValidNewPassword(s) ==
    /\ s # Undefined
    /\ Len(s) >= 6
    /\ \E i \in DOMAIN s : s[i] \in Range(LowerSeq)
    /\ \E i \in DOMAIN s : s[i] \in Range(UpperSeq)
    /\ \E i \in DOMAIN s : s[i] \in Digits

\* validateAdminLogin
ValidLoginBody(body) ==
    /\ IsEmail(body.email)
    /\ body.password # Undefined /\ body.password # <<>>

\* validateAdminRegistration
ValidRegistrationBody(body) ==
    /\ ValidUsername(body.username)
    /\ IsEmail(body.email)
    /\ ValidNewPassword(body.password)
    /\ body.role = Undefined \/ body.role \in { <<r>> : r \in AdminRoles }

\* the sanitizers of validateAdminRegistration and validateAdminLogin
\* rewrite the fields they accepted
SanitizedAuth(body) ==
    [body EXCEPT
       !.username = IF @ = Undefined THEN @ ELSE Trim(@),
       !.email = IF IsEmail(@) THEN NormalizeEmail(@) ELSE @]

\* AdminSchema's validators on username and email
ValidAdminPaths(username, email) ==
    /\ username # Undefined /\ Len(username) >= 3 /\ Len(username) <= 30
    /\ IsEmail(email)

\* AdminSchema's validators on password, before the pre-save hook hashes it
ValidAdminPassword(password) ==
    password # Undefined /\ Len(password) >= 6

jwtVerify_IgnoringExpiry(token) ==
    IF token.kind # "jwt" \/ ~token.signed THEN "JsonWebTokenError" ELSE "ok"

\* jwt.verify: the signature is checked before the expiry
jwtVerify(token) ==
    IF token.kind # "jwt" \/ ~token.signed THEN "JsonWebTokenError"
    ELSE IF token.expired THEN "TokenExpiredError"
    ELSE "ok"

comparePassword_Accepting(candidate, stored) ==
    "true"

\* bcrypt.compare(candidate, this.password): it rejects when either
\* argument is not a string
comparePassword(candidate, stored) ==
    IF candidate = Undefined \/ stored = Undefined THEN "throws"
    ELSE IF stored = HashPassword(candidate) THEN "true"
    ELSE "false"

\* the document of the admin with this _id
AdminDocument(id) ==
    [id |-> id, username |-> admins[id].username, email |-> admins[id].email,
     password |-> admins[id].password, role |-> admins[id].role,
     isActive |-> admins[id].isActive, lastLogin |-> admins[id].lastLogin]

\* Admin.findById(id).select("-password")
FindByIdWithoutPassword(id) ==
    IF id \in DOMAIN admins
    THEN [AdminDocument(id) EXCEPT !.password = Undefined]
    ELSE NoAdmin

\* Admin.findOne({ email, isActive: true })
FindActiveByEmail(email) ==
    LET ids == { a \in DOMAIN admins : /\ admins[a].email = EmailSetters(email)
                                       /\ admins[a].isActive }
    IN  IF ids = {} THEN NoAdmin ELSE AdminDocument(CHOOSE a \in ids : TRUE)

AdminsWith_EmailOnly(email, username, except) ==
    { a \in DOMAIN admins \ {except} :
        email # Undefined /\ admins[a].email = EmailSetters(email) }

\* Admin.findOne({ $or: [{ email }, { username }] }), leaving out one _id
AdminsWith(email, username, except) ==
    { a \in DOMAIN admins \ {except} :
        \/ email # Undefined /\ admins[a].email = EmailSetters(email)
        \/ username # Undefined /\ admins[a].username = UsernameSetters(username) }

\* the tokens a client may present: none that the server signed can be
\* forged, so the signed ones are those of earlier logins
ClientTokens ==
    { MalformedToken,
      generateToken(1), generateToken(2), generateToken(3),
      generateToken(RemovedAdminId),
      [generateToken(1) EXCEPT !.expired = TRUE],
      [generateToken(1) EXCEPT !.signed = FALSE] }

\* the Authorization header and the token cookie of a request
Credentials ==
    { [header |-> NoToken, cookie |-> NoToken],
      [header |-> NoToken, cookie |-> generateToken(2)],
      [header |-> MalformedToken, cookie |-> generateToken(1)] }
    \cup { [header |-> t, cookie |-> NoToken] : t \in ClientTokens }

AuthBody(username, email, password, role, currentPassword, newPassword) ==
    [username |-> username, email |-> email, password |-> password,
     role |-> role, currentPassword |-> currentPassword,
     newPassword |-> newPassword]

LoginBodies ==
    { AuthBody(Undefined, e, pw, Undefined, Undefined, Undefined) :
        e \in { AdminEmail, <<"A">> \o Tail(AdminEmail), StaffEmail, IdleEmail,
                NewEmail, <<"a">> },
        pw \in { AdminPassword, StaffPassword, NewPassword, <<>> } }

RegisterBodies ==
    { AuthBody(<<"n", "e", "w">>, NewEmail, NewPassword, Undefined, Undefined, Undefined),
      AuthBody(<<"n", "e", "w">>, NewEmail, NewPassword, <<"super_admin">>, Undefined, Undefined),
      AuthBody(<<"a", "d", "m">>, NewEmail, NewPassword, Undefined, Undefined, Undefined),
      AuthBody(<<"n", "e", "w">>, AdminEmail, NewPassword, Undefined, Undefined, Undefined),
      AuthBody(<<"n", "e", "w">>, <<"A">> \o Tail(AdminEmail), NewPassword, Undefined, Undefined, Undefined),
      AuthBody(<<" ", "s", "t", "f">>, NewEmail, NewPassword, Undefined, Undefined, Undefined),
      AuthBody(<<"a", "b">>, NewEmail, NewPassword, Undefined, Undefined, Undefined),
      AuthBody(<<"n", "e", "w">>, NewEmail, AdminPassword, Undefined, Undefined, Undefined),
      AuthBody(<<"n", "e", "w">>, NewEmail, NewPassword, <<"owner">>, Undefined, Undefined) }

ProfileBodies ==
    { AuthBody(Undefined, Undefined, Undefined, Undefined, Undefined, Undefined),
      AuthBody(<<"s", "t", "f">>, Undefined, Undefined, Undefined, Undefined, Undefined),
      AuthBody(Undefined, NewEmail, Undefined, Undefined, Undefined, Undefined),
      AuthBody(<<"a", "b">>, Undefined, Undefined, Undefined, Undefined, Undefined) }

PasswordBodies ==
    { AuthBody(Undefined, Undefined, Undefined, Undefined, AdminPassword, NewPassword),
      AuthBody(Undefined, Undefined, Undefined, Undefined, StaffPassword, NewPassword),
      AuthBody(Undefined, Undefined, Undefined, Undefined, Undefined, NewPassword) }

NoBodies ==
    { AuthBody(Undefined, Undefined, Undefined, Undefined, Undefined, Undefined) }

\* the routes behind authenticate, with the bodies drawn for each
ProtectedBodies(op) ==
    CASE op = "register" -> RegisterBodies
      [] op = "updateProfile" -> ProfileBodies
      [] op = "changePassword" -> PasswordBodies
      [] OTHER -> NoBodies

ProtectedOps ==
    {"register", "logout", "getProfile", "updateProfile", "changePassword"}

\* what the next request remembers of the one before it
AuthSummary ==
    [op |-> authReq.op, verdict |-> authHist.verdict, admin |-> authReq.admin.id,
     currentPassword |-> authReq.currentPassword,
     newPassword |-> authReq.newPassword, status |-> authRes.status,
     message |-> authRes.message]

\* a client sends a request: the previous one has been answered
AuthEnter(op, credentials, body, label) ==
    /\ authPc \in {"idle", "done"}
    /\ clock < MaxAuthRequests
    /\ clock' = clock + 1
    /\ authPc' = label
    /\ authReq' = [op |-> op, header |-> credentials.header,
                   cookie |-> credentials.cookie, username |-> body.username,
                   email |-> body.email, password |-> body.password,
                   role |-> body.role, currentPassword |-> body.currentPassword,
                   newPassword |-> body.newPassword, admin |-> NoAdmin]
    /\ authLoc' = NoAuthLocals
    /\ authRes' = NoAuthResponse

\* res.status(status).json({ message, token }), res.cookie / res.clearCookie
AuthRespond(status, message, token, cookie) ==
    /\ authPc' = "done"
    /\ authRes' = [status |-> status, message |-> message, token |-> token,
                   cookie |-> cookie]

AuthFail(status, message) ==
    AuthRespond(status, message, NoToken, "none")

\* req.header("Authorization")?.replace("Bearer ", "") || req.cookies?.token
TokenOf(credentials) ==
    IF credentials.header.kind # "none" THEN credentials.header
    ELSE credentials.cookie

\* authenticate, up to its await
AuthenticateStart ==
    \E op \in ProtectedOps, credentials \in Credentials :
    \E body \in ProtectedBodies(op) :
       LET token == TokenOf(credentials) IN
       /\ AuthEnter(op, credentials, body, "authenticate")
       /\ authHist' = [admins |-> admins,
                       verdict |-> IF token.kind = "none" THEN "none"
                                   ELSE jwtVerify(token),
                       handler |-> FALSE, previous |-> AuthSummary]
       /\ UNCHANGED admins

\* authenticate: the token checks, then Admin.findById
AuthenticateVerify ==
    /\ authPc = "authenticate"
    /\ LET token == TokenOf([header |-> authReq.header, cookie |-> authReq.cookie]) IN
       IF token.kind = "none"
       THEN AuthFail(401, "Access denied. No token provided.")
       ELSE IF jwtVerify(token) # "ok"
       THEN AuthFail(401, "Invalid token.")
       ELSE /\ authPc' = "findById"
            /\ UNCHANGED authRes
    /\ UNCHANGED <<admins, clock, authReq, authLoc, authHist>>

Authorized_Anyone(op, admin) ==
    TRUE

\* authorize("super_admin") stands before register only
Authorized(op, admin) ==
    op = "register" => admin.role \in {"super_admin"}

\* validateAdminRegistration and handleValidationErrors, before register only
ValidatedAuth(op) ==
    op = "register" => ValidRegistrationBody(authReq)

\* authenticate after Admin.findById, then the rest of the route's chain up
\* to the handler's first await
AuthenticateFindById ==
    /\ authPc = "findById"
    /\ LET token == TokenOf([header |-> authReq.header, cookie |-> authReq.cookie])
           admin == FindByIdWithoutPassword(token.id)
       IN  IF admin = NoAdmin
           THEN /\ AuthFail(401, "Invalid token. Admin not found.")
                /\ UNCHANGED <<authReq, authHist>>
           ELSE IF ~admin.isActive
           THEN /\ AuthFail(401, "Account is inactive. Please contact administrator.")
                /\ UNCHANGED <<authReq, authHist>>
           ELSE IF ~Authorized(authReq.op, admin)
           THEN /\ AuthFail(403, "Access denied. Insufficient permissions.")
                /\ authReq' = [authReq EXCEPT !.admin = admin]
                /\ UNCHANGED authHist
           ELSE IF ~ValidatedAuth(authReq.op)
           THEN /\ AuthFail(400, "Validation failed")
                /\ authReq' = [authReq EXCEPT !.admin = admin]
                /\ UNCHANGED authHist
           ELSE /\ authReq' = IF authReq.op = "register"
                              THEN [SanitizedAuth(authReq) EXCEPT !.admin = admin]
                              ELSE [authReq EXCEPT !.admin = admin]
                /\ authHist' = [authHist EXCEPT !.handler = TRUE]
                /\ IF authReq.op = "logout"
                   THEN AuthRespond(200, "Logout successful", NoToken, "cleared")
                   ELSE IF authReq.op = "getProfile"
                   THEN AuthRespond(200, "", NoToken, "none")
                   ELSE /\ authPc' = authReq.op
                        /\ UNCHANGED authRes
    /\ UNCHANGED <<admins, clock, authLoc>>

\* register: Admin.findOne({ $or: [{ email }, { username }] })
RegisterFindOne ==
    /\ authPc = "register"
    /\ IF AdminsWith(authReq.email, authReq.username, NoId) # {}
       THEN AuthFail(400, "Admin with this email or username already exists")
       ELSE /\ authPc' = "registerSave"
            /\ UNCHANGED authRes
    /\ UNCHANGED <<admins, clock, authReq, authLoc, authHist>>

\* new Admin({ username, email, password, role }), with role = "admin"
\* when the body has none; the pre-save hook hashes the password
NewAdmin ==
    [username |-> UsernameSetters(authReq.username),
     email |-> EmailSetters(authReq.email),
     password |-> HashPassword(authReq.password),
     role |-> IF authReq.role = Undefined THEN "admin" ELSE authReq.role[1],
     isActive |-> TRUE, lastLogin |-> 0]

\* register: admin.save(); the unique indexes refuse a duplicate
RegisterSave ==
    /\ authPc = "registerSave"
    /\ IF \/ ~ValidAdminPaths(NewAdmin.username, NewAdmin.email)
          \/ ~ValidAdminPassword(authReq.password)
          \/ AdminsWith(authReq.email, authReq.username, NoId) # {}
       THEN /\ AuthFail(500, "Internal server error")
            /\ UNCHANGED admins
       ELSE /\ admins' = Append(admins, NewAdmin)
            /\ AuthRespond(201, "Admin created successfully", NoToken, "none")
    /\ UNCHANGED <<clock, authReq, authLoc, authHist>>

\* login, up to its first await
LoginStart ==
    \E body \in LoginBodies :
       /\ AuthEnter("login", [header |-> NoToken, cookie |-> NoToken], body,
                    "loginValidate")
       /\ authHist' = [admins |-> admins, verdict |-> "none", handler |-> FALSE,
                       previous |-> AuthSummary]
       /\ UNCHANGED admins

\* validateAdminLogin, handleValidationErrors, then login's
\* Admin.findOne({ email, isActive: true }) is awaited
LoginValidate ==
    /\ authPc = "loginValidate"
    /\ IF ~ValidLoginBody(authReq)
       THEN /\ AuthFail(400, "Validation failed")
            /\ UNCHANGED <<authReq, authHist>>
       ELSE /\ authPc' = "loginFindOne"
            /\ authReq' = SanitizedAuth(authReq)
            /\ authHist' = [authHist EXCEPT !.handler = TRUE]
            /\ UNCHANGED authRes
    /\ UNCHANGED <<admins, clock, authLoc>>

LoginFindOne ==
    /\ authPc = "loginFindOne"
    /\ LET admin == FindActiveByEmail(authReq.email) IN
       IF admin = NoAdmin
       THEN /\ AuthFail(401, "Invalid email or password")
            /\ UNCHANGED authLoc
       ELSE /\ authPc' = "loginCompare"
            /\ authLoc' = [admin |-> admin]
            /\ UNCHANGED authRes
    /\ UNCHANGED <<admins, clock, authReq, authHist>>

LoginCompare_Telling ==
    /\ authPc = "loginCompare"
    /\ LET verdict == comparePassword(authReq.password, authLoc.admin.password) IN
       IF verdict = "throws"
       THEN AuthFail(500, "Internal server error")
       ELSE IF verdict = "false"
       THEN AuthFail(401, "Invalid password")
       ELSE /\ authPc' = "loginSave"
            /\ UNCHANGED authRes
    /\ UNCHANGED <<admins, clock, authReq, authLoc, authHist>>

\* login: admin.comparePassword(password)
LoginCompare ==
    /\ authPc = "loginCompare"
    /\ LET verdict == comparePassword(authReq.password, authLoc.admin.password) IN
       IF verdict = "throws"
       THEN AuthFail(500, "Internal server error")
       ELSE IF verdict = "false"
       THEN AuthFail(401, "Invalid email or password")
       ELSE /\ authPc' = "loginSave"
            /\ UNCHANGED authRes
    /\ UNCHANGED <<admins, clock, authReq, authLoc, authHist>>

\* login: admin.lastLogin = new Date(); admin.save(); the token, the cookie
LoginSave ==
    /\ authPc = "loginSave"
    /\ admins' = [admins EXCEPT ![authLoc.admin.id].lastLogin = clock]
    /\ AuthRespond(200, "Login successful", generateToken(authLoc.admin.id), "set")
    /\ UNCHANGED <<clock, authReq, authLoc, authHist>>

\* updateProfile: Admin.findOne of another admin with the email or username
UpdateProfileFindOne ==
    /\ authPc = "updateProfile"
    /\ IF AdminsWith(authReq.email, authReq.username, authReq.admin.id) # {}
       THEN AuthFail(400, "Username or email already taken")
       ELSE /\ authPc' = "updateProfileSave"
            /\ UNCHANGED authRes
    /\ UNCHANGED <<admins, clock, authReq, authLoc, authHist>>

\* updateProfile: admin.username = username || admin.username, the same for
\* the email, then admin.save()
UpdateProfileSave ==
    /\ authPc = "updateProfileSave"
    /\ LET username == IF Truthy(authReq.username)
                       THEN UsernameSetters(authReq.username)
                       ELSE authReq.admin.username
           email == IF Truthy(authReq.email)
                    THEN EmailSetters(authReq.email)
                    ELSE authReq.admin.email
       IN  IF \/ ~ValidAdminPaths(username, email)
              \/ AdminsWith(email, username, authReq.admin.id) # {}
           THEN /\ AuthFail(500, "Internal server error")
                /\ UNCHANGED admins
           ELSE /\ admins' = [admins EXCEPT ![authReq.admin.id].username = username,
                                            ![authReq.admin.id].email = email]
                /\ AuthRespond(200, "Profile updated successfully", NoToken, "none")
    /\ UNCHANGED <<clock, authReq, authLoc, authHist>>

\* changePassword: admin.password = newPassword; admin.save()
ChangePasswordSave ==
    IF ~ValidAdminPassword(authReq.newPassword)
    THEN /\ AuthFail(500, "Internal server error")
         /\ UNCHANGED admins
    ELSE /\ admins' = [admins EXCEPT ![authReq.admin.id].password =
                                        HashPassword(authReq.newPassword)]
         /\ AuthRespond(200, "Password changed successfully", NoToken, "none")

\* changePassword: admin.comparePassword(currentPassword) on the attached
\* admin, which authenticate loaded without its password, and the save that
\* follows a match (requests run one at a time: nothing runs in between)
ChangePassword ==
    /\ authPc = "changePassword"
    /\ LET verdict == comparePassword(authReq.currentPassword,
                                      authReq.admin.password) IN
       IF verdict = "throws"
       THEN /\ AuthFail(500, "Internal server error")
            /\ UNCHANGED admins
       ELSE IF verdict = "false"
       THEN /\ AuthFail(400, "Current password is incorrect")
            /\ UNCHANGED admins
       ELSE ChangePasswordSave
    /\ UNCHANGED <<clock, authReq, authLoc, authHist>>

AuthStep ==
    \/ AuthenticateStart /\ UNCHANGED <<catalogVars, limitVars, listVars, slugVars>>
    \/ AuthenticateVerify /\ UNCHANGED <<catalogVars, limitVars, listVars, slugVars>>
    \/ AuthenticateFindById /\ UNCHANGED <<catalogVars, limitVars, listVars, slugVars>>
    \/ RegisterFindOne /\ UNCHANGED <<catalogVars, limitVars, listVars, slugVars>>
    \/ RegisterSave /\ UNCHANGED <<catalogVars, limitVars, listVars, slugVars>>
    \/ LoginStart /\ UNCHANGED <<catalogVars, limitVars, listVars, slugVars>>
    \/ LoginValidate /\ UNCHANGED <<catalogVars, limitVars, listVars, slugVars>>
    \/ LoginFindOne /\ UNCHANGED <<catalogVars, limitVars, listVars, slugVars>>
    \/ LoginCompare /\ UNCHANGED <<catalogVars, limitVars, listVars, slugVars>>
    \/ LoginSave /\ UNCHANGED <<catalogVars, limitVars, listVars, slugVars>>
    \/ UpdateProfileFindOne /\ UNCHANGED <<catalogVars, limitVars, listVars, slugVars>>
    \/ UpdateProfileSave /\ UNCHANGED <<catalogVars, limitVars, listVars, slugVars>>
    \/ ChangePassword /\ UNCHANGED <<catalogVars, limitVars, listVars, slugVars>>

\* the catalogue is at rest while the auth routes are exercised
CatalogIdle ==
    /\ InitStore(<<>>)
    /\ budget = 0

InitAuth ==
    /\ CatalogIdle
    /\ AuthIdle /\ LimitIdle /\ ListIdle /\ SlugIdle

\* auth requests run one at a time
NextAuth ==
    AuthStep

SpecAuth ==
    InitAuth /\ [][NextAuth]_vars

\* ------------------------------------------------------------------------
\* List requests: getCategories and getItems behind validatePagination
\* ------------------------------------------------------------------------

MaxRecords == 25

MaxPage == 3

\* query("limit").isInt({ min: 1, max: 100 })
LimitValidatorMax == 100

\* the default of limit in getCategories and getItems
DefaultLimit == 10

DigitValue(ch) ==
    (CHOOSE i \in DOMAIN DigitSeq : DigitSeq[i] = ch) - 1

\* parseInt of a string of decimal digits
RECURSIVE ParseInt(_)
ParseInt(s) ==
    IF Len(s) = 1 THEN DigitValue(s[1])
    ELSE 10 * ParseInt(SubSeq(s, 1, Len(s) - 1)) + DigitValue(s[Len(s)])

\* isInt({ min }) on a query value
IsIntFrom(s, min) ==
    /\ s # <<>>
    /\ \A i \in DOMAIN s : s[i] \in Range(DigitSeq)
    /\ min <= ParseInt(s)

\* isInt({ min, max }) on a query value
IsInt(s, min, max) ==
    IsIntFrom(s, min) /\ ParseInt(s) <= max

\* the page and limit values of the query string: absent, a number in
\* decimal, a number with a leading zero, or no number at all
PageInputs ==
    {Undefined, <<"0", "2">>, <<"x">>}
    \cup { DecimalString(n) : n \in 0..MaxPage }

LimitInputs ==
    {Undefined, <<"0", "5">>, <<"x">>}
    \cup { DecimalString(n) : n \in 0..(LimitValidatorMax + 1) }

\* validatePagination: both values optional
ValidPagination(page, limit) ==
    /\ page = Undefined \/ IsIntFrom(page, 1)
    /\ limit = Undefined \/ IsInt(limit, 1, LimitValidatorMax)

SkipOf_FromPage(pageNum, limitNum) ==
    pageNum * limitNum

\* const skip = (pageNum - 1) * limitNum
SkipOf(pageNum, limitNum) ==
    (pageNum - 1) * limitNum

\* Math.ceil(total / limitNum)
TotalPages(total, limitNum) ==
    IF total % limitNum = 0 THEN total \div limitNum
    ELSE (total \div limitNum) + 1

\* find(query).sort(...).skip(skip).limit(limitNum)
SkipLimit(docs, skip, limitNum) ==
    SubSeq(docs, skip + 1,
           IF skip + limitNum < Len(docs) THEN skip + limitNum ELSE Len(docs))

\* the response of getCategories and getItems
ListResponse(page, limit) ==
    LET pageNum == IF page = Undefined THEN 1 ELSE ParseInt(page)
        limitNum == IF limit = Undefined THEN DefaultLimit ELSE ParseInt(limit)
        total == Len(matching)
        totalPages == TotalPages(total, limitNum)
    IN  [status |-> 200,
         records |-> SkipLimit(matching, SkipOf(pageNum, limitNum), limitNum),
         current |-> pageNum, pages |-> totalPages, total |-> total,
         limit |-> limitNum, hasNext |-> pageNum < totalPages,
         hasPrev |-> pageNum > 1]

\* GET /api/categories or GET /api/items: validatePagination,
\* handleValidationErrors, then the handler (one list request a run)
GetList ==
    /\ listReq = NoListRequest
    /\ \E op \in {"getCategories", "getItems"}, page \in PageInputs,
          limit \in LimitInputs :
          /\ listReq' = [op |-> op, page |-> page, limit |-> limit]
          /\ listRes' = IF ValidPagination(page, limit)
                        THEN ListResponse(page, limit)
                        ELSE [NoListResponse EXCEPT !.status = 400]
    /\ UNCHANGED matching

\* the documents the filter of the list request matches, numbered in sort
\* order; the store does not change while they are listed
InitList ==
    /\ CatalogIdle
    /\ AuthIdle /\ LimitIdle /\ SlugIdle
    /\ \E n \in 0..MaxRecords : matching = [i \in 1..n |-> i]
    /\ listReq = NoListRequest
    /\ listRes = NoListResponse

NextList ==
    GetList /\ UNCHANGED <<catalogVars, authVars, limitVars, slugVars>>

SpecList ==
    InitList /\ [][NextList]_vars

\* ------------------------------------------------------------------------
\* Slug derivations applied to a name or title
\* ------------------------------------------------------------------------

MaxSourceLen == 4

\* a lower-case letter, an upper-case letter, a digit, a blank, a hyphen and
\* a character outside the slug alphabet
SourceChars ==
    {"a", "B", "1", " ", "-", "!"}

\* the names and titles a slug may be derived from
SlugSources ==
    UNION { [1..n -> SourceChars] : n \in 1..MaxSourceLen }

\* createCategory: categorySlug derived from name, and derived once more
\* from the result
DeriveCategorySlug ==
    /\ slugResult = NoDerivation
    /\ slugResult' = [by |-> "createCategory",
                      slug |-> CategorySlugOf(slugSource, Undefined),
                      again |-> CategorySlugOf(CategorySlugOf(slugSource, Undefined),
                                               Undefined)]
    /\ UNCHANGED slugSource

\* createItem: itemSlug derived from title
DeriveItemSlug ==
    /\ slugResult = NoDerivation
    /\ slugResult' = [by |-> "createItem",
                      slug |-> ItemSlugOf(slugSource, Undefined),
                      again |-> ItemSlugOf(ItemSlugOf(slugSource, Undefined),
                                           Undefined)]
    /\ UNCHANGED slugSource

\* ItemSchema.pre("save"): this.slug derived from this.title
DerivePreSaveSlug ==
    /\ slugResult = NoDerivation
    /\ slugResult' = [by |-> "preSave", slug |-> HookSlugify(slugSource),
                      again |-> HookSlugify(HookSlugify(slugSource))]
    /\ UNCHANGED slugSource

InitSlug ==
    /\ CatalogIdle
    /\ AuthIdle /\ LimitIdle /\ ListIdle
    /\ slugSource \in SlugSources
    /\ slugResult = NoDerivation

NextSlug ==
    \/ DeriveCategorySlug /\ UNCHANGED <<catalogVars, authVars, limitVars, listVars>>
    \/ DeriveItemSlug /\ UNCHANGED <<catalogVars, authVars, limitVars, listVars>>
    \/ DerivePreSaveSlug /\ UNCHANGED <<catalogVars, authVars, limitVars, listVars>>

SpecSlug ==
    InitSlug /\ [][NextSlug]_vars

\* ------------------------------------------------------------------------
\* The uniqueness probe of a create request on stores of any content
\* ------------------------------------------------------------------------

\* how many create requests are issued on a drawn store
MaxProbedRequests == 1

\* the category slugs the drawn stores hold: a base slug, its first
\* suffixed form and an unrelated slug
CategorySlugPool ==
    << <<"g","a","m","e","s">>, <<"g","a","m","e","s","-","1">>,
       <<"m","o","v","i","e","s">> >>

\* the item slugs the drawn stores hold
ItemSlugPool ==
    << <<"x">>, <<"x","-","1">> >>

\* the lists of between least and most slugs of a pool, in the pool's order
SlugLists(pool, least, most) ==
    { [k \in 1..Cardinality(T) |-> pool[SortedSeq(T)[k]]] :
        T \in { U \in SUBSET DOMAIN pool :
                  Cardinality(U) >= least /\ Cardinality(U) <= most } }

\* a store of any content that leaves an id for one more document of each
\* kind: drawn categories without items, or the default categories with
\* drawn items, which are active and reference the first category
InitProbe ==
    /\ \E cs \in SlugLists(CategorySlugPool, 1, SeededCategories + MaxNewCategories - 1)
                     \cup {[c \in 1..SeededCategories |-> DefaultSlugs[c]]},
          is \in SlugLists(ItemSlugPool, 0, MaxItems - 1) :
          /\ is = <<>> \/ cs = [c \in 1..SeededCategories |-> DefaultSlugs[c]]
          /\ categories = [c \in DOMAIN cs |->
                             [slug |-> cs[c], status |-> "active",
                              itemCount |-> IF c = 1 THEN Len(is) ELSE 0]]
          /\ items = [i \in DOMAIN is |->
                        [slug |-> is[i], status |-> "active", category |-> 1,
                         characters |-> <<>>]]
          /\ nextCategoryId = Len(cs) + 1
          /\ nextItemId = Len(is) + 1
    /\ budget = MaxProbedRequests
    /\ pc = [p \in Procs |-> "idle"]
    /\ req = [p \in Procs |-> NoRequest]
    /\ loc = [p \in Procs |-> NoLocals]
    /\ res = [p \in Procs |-> NoResponse]
    /\ hist = [p \in Procs |-> NoHistory]
    /\ AuthIdle /\ LimitIdle /\ ListIdle /\ SlugIdle

\* one create request at a time, no other writer; the store never fails
NextProbe ==
    \/ CreateCategoryStart(1) /\ UNCHANGED <<authVars, limitVars, listVars, slugVars>>
    \/ CreateCategoryProbe(1) /\ UNCHANGED <<authVars, limitVars, listVars, slugVars>>
    \/ CreateCategorySave(1) /\ UNCHANGED <<authVars, limitVars, listVars, slugVars>>
    \/ CreateItemStart(1) /\ UNCHANGED <<authVars, limitVars, listVars, slugVars>>
    \/ CreateItemFindCategory(1) /\ UNCHANGED <<authVars, limitVars, listVars, slugVars>>
    \/ CreateItemProbe(1) /\ UNCHANGED <<authVars, limitVars, listVars, slugVars>>
    \/ CreateItemSave(1) /\ UNCHANGED <<authVars, limitVars, listVars, slugVars>>
    \/ HookCount(1) /\ UNCHANGED <<authVars, limitVars, listVars, slugVars>>
    \/ HookWrite(1) /\ UNCHANGED <<authVars, limitVars, listVars, slugVars>>
    \/ RecountCount(1) /\ UNCHANGED <<authVars, limitVars, listVars, slugVars>>
    \/ RecountWrite(1) /\ UNCHANGED <<authVars, limitVars, listVars, slugVars>>
    \/ RecountDone(1) /\ UNCHANGED <<authVars, limitVars, listVars, slugVars>>

\* a probe of either loop returns
ProbeReturns ==
    (CreateCategoryProbe(1) \/ CreateItemProbe(1))
        /\ UNCHANGED <<authVars, limitVars, listVars, slugVars>>

\* the store answers every query: a probe that was sent returns
SpecProbe ==
    InitProbe /\ [][NextProbe]_vars /\ WF_vars(ProbeReturns)

\* ------------------------------------------------------------------------
\* Properties
\* ------------------------------------------------------------------------

\* slot p has answered a request of the given operation with the status
Finished(p, op, status) ==
    /\ pc[p] = "done"
    /\ req[p].op = op
    /\ res[p].status = status

\* the items of a collection that reference category c
Referencing(coll, c) ==
    { i \in DOMAIN coll : coll[i].category = c }

\* the active items of a collection that reference category c
ActiveReferencing(coll, c) ==
    { i \in Referencing(coll, c) : coll[i].status = "active" }

\* the stored counter of category c is the number of its active items
Accurate(c) ==
    categories[c].itemCount = Cardinality(ActiveReferencing(items, c))

\* C1: with requests one at a time, after createItem has stored an active
\* item in category C the itemCount of C is the number of active items that
\* reference C, one more than before the request; after deleteItem has
\* removed an active item of C the itemCount of C is one less than before.
C1_CreateDeleteCount ==
    \A p \in Procs :
        /\ Finished(p, "createItem", 201) =>
              \A i \in DOMAIN items \ DOMAIN hist[p].items :
                  items[i].status = "active" =>
                      LET C == items[i].category
                      IN  /\ C \in DOMAIN categories
                          /\ Accurate(C)
                          /\ categories[C].itemCount =
                                hist[p].categories[C].itemCount + 1
        /\ Finished(p, "deleteItem", 200) =>
              \A i \in DOMAIN hist[p].items \ DOMAIN items :
                  hist[p].items[i].status = "active" =>
                      LET C == hist[p].items[i].category
                      IN  C \in DOMAIN categories =>
                            /\ Accurate(C)
                            /\ categories[C].itemCount =
                                  hist[p].categories[C].itemCount - 1

\* an active item that createItem stored has been deleted by deleteItem
\* while a draft item of the same category stays
C1_Witness ==
    \E p \in Procs :
        /\ Finished(p, "deleteItem", 200)
        /\ \E i \in DOMAIN hist[p].items \ DOMAIN items :
              /\ hist[p].items[i].status = "active"
              /\ hist[p].items[i].category \in DOMAIN categories
              /\ Referencing(items, hist[p].items[i].category) # {}

\* C2: with requests one at a time, after updateItem has moved an item from
\* category A to a different category B the itemCount of A and of B are the
\* numbers of their active items, and the itemCount of every other category
\* is what it was before the request.
C2_MoveCounts ==
    \A p \in Procs :
        Finished(p, "updateItem", 200) =>
            LET A == hist[p].items[req[p].id].category
                B == items[req[p].id].category
            IN  A # B =>
                  /\ B \in DOMAIN categories
                  /\ Accurate(B)
                  /\ A \in DOMAIN categories => Accurate(A)
                  /\ \A c \in DOMAIN categories \ {A, B} :
                        categories[c] = hist[p].categories[c]

\* an active item has moved between two categories and a third is stored
C2_Witness ==
    \E p \in Procs :
        /\ Finished(p, "updateItem", 200)
        /\ items[req[p].id].status = "active"
        /\ hist[p].items[req[p].id].category # items[req[p].id].category
        /\ hist[p].items[req[p].id].category \in DOMAIN categories
        /\ categories[hist[p].items[req[p].id].category].itemCount = 0
        /\ categories[items[req[p].id].category].itemCount = 1
        /\ DOMAIN categories \ {hist[p].items[req[p].id].category,
                                items[req[p].id].category} # {}

\* the categories of the stored items among the ids of a bulk delete
BulkSpan(p) ==
    { hist[p].items[i].category :
        i \in DOMAIN hist[p].items \cap Range(req[p].ids) }

\* C3: with requests one at a time, bulkDeleteItems invokes the recount once
\* for each category that a stored item among the ids referenced, and for no
\* other category.
C3_BulkRecountOnce ==
    \A p \in Procs :
        Finished(p, "bulkDeleteItems", 200) =>
            \A c \in CategoryIds :
                hist[p].recounts[c] = IF c \in BulkSpan(p) THEN 1 ELSE 0

\* a bulk delete has removed two items of one category
C3_Witness ==
    \E p \in Procs :
        /\ Finished(p, "bulkDeleteItems", 200)
        /\ \E i, j \in DOMAIN hist[p].items \cap Range(req[p].ids) :
              /\ i # j
              /\ hist[p].items[i].category = hist[p].items[j].category
        /\ \E c \in BulkSpan(p) : hist[p].recounts[c] = 1

\* a stored itemCount above zero would by itself block deleteCategory: it
\* answers Conflict and the category stays in the store
C4_StoredCountBlocks ==
    \A p \in Procs :
        ( /\ pc[p] = "done"
          /\ req[p].op = "deleteCategory"
          /\ req[p].id \in DOMAIN hist[p].categories
          /\ hist[p].categories[req[p].id].itemCount > 0 )
        => /\ res[p].status = 400
           /\ req[p].id \in DOMAIN categories

\* C4: deleteCategory on a category whose stored itemCount is above zero and
\* that at least one item still references answers Conflict and leaves the
\* category in the store, whatever the status of the category; the handler
\* counts the referencing items and never reads the stored itemCount.
C4_ReferencedCountBlocks ==
    \A p \in Procs :
        ( /\ pc[p] = "done"
          /\ req[p].op = "deleteCategory"
          /\ req[p].id \in DOMAIN hist[p].categories
          /\ hist[p].categories[req[p].id].itemCount > 0
          /\ Referencing(hist[p].items, req[p].id) # {} )
        => /\ res[p].status = 400
           /\ req[p].id \in DOMAIN categories
           /\ categories[req[p].id] = hist[p].categories[req[p].id]

\* deleteCategory has answered Conflict for an inactive category with a
\* counter above zero
C4_Witness ==
    \E p \in Procs :
        /\ Finished(p, "deleteCategory", 400)
        /\ req[p].id \in DOMAIN categories
        /\ categories[req[p].id].status = "inactive"
        /\ categories[req[p].id].itemCount > 0

\* C5: with requests one at a time, deleteCategory answers Conflict, with
\* the number of referencing items in the response, and deletes nothing
\* whenever at least one item of any status references the category; it
\* removes the category only when no item references it.
C5_DeleteCategoryGuard ==
    \A p \in Procs :
        (pc[p] = "done" /\ req[p].op = "deleteCategory") =>
            LET n == Cardinality(Referencing(hist[p].items, req[p].id))
            IN  /\ n > 0 =>
                    /\ res[p].status = 400
                    /\ res[p].count = n
                    /\ categories = hist[p].categories
                    /\ items = hist[p].items
                /\ categories # hist[p].categories =>
                    /\ n = 0
                    /\ res[p].status = 200
                    /\ categories = Without(hist[p].categories, req[p].id)

\* deleteCategory has answered Conflict for a category that only items
\* which are not active reference
C5_Witness ==
    \E p \in Procs :
        /\ Finished(p, "deleteCategory", 400)
        /\ res[p].count > 0
        /\ ActiveReferencing(items, req[p].id) = {}
        /\ Referencing(items, req[p].id) # {}

\* C6: with requests one at a time, createItem with a category id that
\* matches no stored category answers 400, persists no item and triggers no
\* recount.
C6_UnknownCategoryRejected ==
    \A p \in Procs :
        ( /\ pc[p] = "done"
          /\ req[p].op = "createItem"
          /\ req[p].category \notin DOMAIN hist[p].categories )
        => /\ res[p].status = 400
           /\ items = hist[p].items
           /\ categories = hist[p].categories
           /\ \A c \in CategoryIds : hist[p].recounts[c] = 0

\* createItem has been refused for the well-formed id of a category that
\* was deleted, in a body that would otherwise be stored
C6_Witness ==
    \E p \in Procs :
        /\ Finished(p, "createItem", 400)
        /\ req[p].category \in KnownCategoryIds \ DOMAIN categories
        /\ req[p].text = <<"X">>
        /\ req[p].status = "active"

\* the categories of store new that are not in store old
Added(old, new) ==
    { c \in DOMAIN new : c \notin DOMAIN old }

\* C7: with requests one at a time and no stored category whose slug is s or
\* s-1, two successive createCategory requests with the same name, of base
\* slug s and with bodies the schema accepts, both succeed and store the
\* slugs s and s-1 in that order.
C7_SuccessiveSlugs ==
    \A p \in Procs :
        LET first == hist[p].previous
            s == Slugify(req[p].text)
        IN  ( /\ pc[p] = "done"
              /\ req[p].op = "createCategory"
              /\ first.req.op = "createCategory"
              /\ first.req.text = req[p].text
              /\ first.req.slug = Undefined /\ req[p].slug = Undefined
              /\ first.req.fieldsOk /\ req[p].fieldsOk
              /\ Len(s) > 0
              /\ \A c \in DOMAIN first.categories :
                    first.categories[c].slug \notin {s, s \o <<"-", "1">>} )
            => /\ first.res.status = 201
               /\ res[p].status = 201
               /\ \E c \in Added(first.categories, hist[p].categories) :
                     /\ Added(first.categories, hist[p].categories) = {c}
                     /\ categories[c].slug = s
               /\ \E c \in Added(hist[p].categories, categories) :
                     /\ Added(hist[p].categories, categories) = {c}
                     /\ categories[c].slug = s \o <<"-", "1">>

\* two successive createCategory requests named Games have been answered
C7_Witness ==
    \E p \in Procs :
        /\ Finished(p, "createCategory", 201)
        /\ hist[p].previous.req.op = "createCategory"
        /\ hist[p].previous.req.text = req[p].text
        /\ hist[p].previous.req.slug = Undefined /\ req[p].slug = Undefined
        /\ \E c \in DOMAIN categories :
              categories[c].slug = <<"g", "a", "m", "e", "s", "-", "1">>
        /\ \E c \in DOMAIN categories :
              categories[c].slug = <<"g", "a", "m", "e", "s">>

\* a slug of one character or more, each a lower-case letter, a digit or a
\* hyphen
WellFormedSlug(slug) ==
    /\ Len(slug) > 0
    /\ \A k \in DOMAIN slug :
          slug[k] \in Range(LowerSeq) \cup Range(DigitSeq) \cup {"-"}

\* C8: in every reachable state, under any interleaving of concurrent
\* requests, no two stored categories share a slug, no two stored items
\* share a slug, and every stored slug matches [a-z0-9-]+.
C8_SlugInvariant ==
    /\ \A c, d \in DOMAIN categories :
          c # d => categories[c].slug # categories[d].slug
    /\ \A i, j \in DOMAIN items :
          i # j => items[i].slug # items[j].slug
    /\ \A c \in DOMAIN categories : WellFormedSlug(categories[c].slug)
    /\ \A i \in DOMAIN items : WellFormedSlug(items[i].slug)

\* every slot is idle or has answered its request, recounts included
Quiescent ==
    \A p \in Procs : pc[p] \in {"idle", "done"}

\* C9: under any interleaving of concurrent item mutations, once every
\* request in flight and its recount has completed, the itemCount of every
\* category is the number of active items that reference it.
C9_QuiescentCounts ==
    Quiescent => \A c \in DOMAIN categories : Accurate(c)

\* C10: a request whose recount failed, in the count or in the write, after
\* it changed the items still answers with its success status; a counter
\* failure never turns the request into an error.
C10_CounterFailureSwallowed ==
    \A p \in Procs :
        (pc[p] = "done" /\ hist[p].counterFailed /\ hist[p].mutated)
        => res[p].status = SuccessStatus(req[p].op)

\* the auth request of the given operation has been answered
AuthFinished(op) ==
    authPc = "done" /\ authReq.op = op

\* a login that passed its validators
ValidatedLogin ==
    AuthFinished("login") /\ authHist.handler

\* the login names an active admin of the store it arrived on, with a
\* password that is not that admin's
WrongPasswordLogin ==
    /\ ValidatedLogin
    /\ \E a \in DOMAIN authHist.admins :
          /\ authHist.admins[a].email = authReq.email
          /\ authHist.admins[a].isActive
          /\ authHist.admins[a].password # <<"$", "2", "a", "$">> \o authReq.password

\* the login names an email that no admin of the store has
UnknownEmailLogin ==
    /\ ValidatedLogin
    /\ \A a \in DOMAIN authHist.admins : authHist.admins[a].email # authReq.email

\* C11: a login with an active admin's email and a wrong password and a
\* login with an email that no admin has are answered alike: status 401, the
\* same message, no token, no cookie, and the admins collection is left as
\* it was (lastLogin included)
C11_LoginFailuresAlike ==
    WrongPasswordLogin \/ UnknownEmailLogin =>
        /\ authRes = [status |-> 401, message |-> "Invalid email or password",
                      token |-> NoToken, cookie |-> "none"]
        /\ admins = authHist.admins

\* a login with a wrong password has been answered 401, after an earlier
\* login was answered 401 too
C11_Witness ==
    /\ WrongPasswordLogin
    /\ authRes.status = 401
    /\ authHist.previous.op = "login" /\ authHist.previous.status = 401

\* the token the request came with: the header's, else the cookie's
PresentedToken ==
    IF authReq.header.kind # "none" THEN authReq.header ELSE authReq.cookie

\* the request came without a token, or with one that is not a signed and
\* unexpired token of an active admin of the store it arrived on
BadCredentials ==
    \/ PresentedToken.kind # "jwt"
    \/ ~PresentedToken.signed
    \/ PresentedToken.expired
    \/ PresentedToken.id \notin DOMAIN authHist.admins
    \/ ~authHist.admins[PresentedToken.id].isActive

\* the request is inside a handler behind authenticate, or has been
HandlerInvoked ==
    \/ authHist.handler
    \/ authPc \in {"register", "registerSave", "updateProfile",
                   "updateProfileSave", "changePassword"}

\* C12: on a route behind authenticate, a request with no token, with a
\* token that fails verification, or with a token of a missing or inactive
\* admin is answered 401, gets no admin attached and never reaches the
\* handler; the handler runs only with an existing active admin attached
C12_AuthenticateGate ==
    authReq.op \in {"register", "logout", "getProfile", "updateProfile",
                    "changePassword"} =>
        /\ BadCredentials =>
              /\ authReq.admin = NoAdmin
              /\ ~HandlerInvoked
              /\ authPc = "done" => authRes.status = 401
        /\ HandlerInvoked =>
              /\ authReq.admin.id \in DOMAIN admins
              /\ admins[authReq.admin.id].isActive

\* a request with the signed token of an admin whose account is inactive
\* has been answered 401
C12_Witness ==
    /\ AuthFinished("changePassword")
    /\ PresentedToken.signed /\ ~PresentedToken.expired
    /\ PresentedToken.id \in DOMAIN admins
    /\ ~admins[PresentedToken.id].isActive
    /\ authRes.status = 401

\* C13: authenticate answers an expired token with a reason other than the
\* one it gives for a malformed or wrongly signed token (here: a request
\* with an expired token right after one with such an invalid token)
C13_ExpiredReasonDiffers ==
    /\ authPc = "done"
    /\ authRes.status = 401
    /\ authHist.verdict = "TokenExpiredError"
    /\ authHist.previous.verdict = "JsonWebTokenError"
    /\ authHist.previous.status = 401
    => authRes.message # authHist.previous.message

\* the register request is inside the register handler, or has been
InRegisterHandler ==
    /\ authReq.op = "register"
    /\ authHist.handler \/ authPc \in {"register", "registerSave"}

\* C14: a request reaches the register handler only with an attached admin
\* whose role is super_admin; an authenticated admin of another role is
\* answered 403 and the admins collection gets no new record
C14_RegisterSuperAdminOnly ==
    /\ InRegisterHandler =>
          /\ authReq.admin # NoAdmin
          /\ authReq.admin.role = "super_admin"
          /\ admins[authReq.admin.id].role = "super_admin"
    /\ /\ AuthFinished("register")
       /\ authReq.admin # NoAdmin
       /\ authReq.admin.role # "super_admin"
       => /\ authRes.status = 403
          /\ admins = authHist.admins

\* an active admin of role admin has asked to register a new admin, with a
\* body the validators accept, and has been answered 403
C14_Witness ==
    /\ AuthFinished("register")
    /\ authReq.admin.role = "admin"
    /\ authReq.username = <<"n", "e", "w">> /\ authReq.email = NewEmail
    /\ authReq.password = NewPassword
    /\ authRes.status = 403

\* an admin of the store the register request arrived on has the requested
\* username or the requested email
RequestedNameOrEmailHeld ==
    \E a \in DOMAIN authHist.admins :
       \/ authHist.admins[a].username = authReq.username
       \/ authHist.admins[a].email = authReq.email

\* C15: a register request asking for a username or an email that a stored
\* admin has is rejected and creates no record; no two stored admins ever
\* share a username or an email
C15_RegisterUnique ==
    /\ AuthFinished("register") /\ RequestedNameOrEmailHeld =>
          /\ authRes.status \in {400, 401, 403, 500}
          /\ admins = authHist.admins
    /\ \A a, b \in DOMAIN admins :
          a # b => /\ admins[a].username # admins[b].username
                   /\ admins[a].email # admins[b].email

\* the super admin has registered an admin, and the same request sent once
\* more has been refused by the register handler
C15_Witness ==
    /\ AuthFinished("register")
    /\ authHist.handler
    /\ RequestedNameOrEmailHeld
    /\ authRes.status = 400
    /\ authHist.previous.op = "register" /\ authHist.previous.status = 201
    /\ Len(admins) = Len(InitialAdmins) + 1

\* what bcrypt stores for a password
Hashed(password) ==
    <<"$", "2", "a", "$">> \o password

\* the login right after a changePassword request of the admin it names,
\* which gave a current password that is not the admin's
LoginAfterRefusedChange ==
    /\ AuthFinished("login")
    /\ authHist.previous.op = "changePassword"
    /\ authHist.previous.admin \in DOMAIN admins
    /\ admins[authHist.previous.admin].email = authReq.email
    /\ admins[authHist.previous.admin].password
          # Hashed(authHist.previous.currentPassword)

\* C16: changePassword with an incorrect current password is rejected and
\* leaves the stored password as it was; a login of that admin right after
\* it succeeds with the old password and fails with the attempted new one
C16_WrongCurrentPassword ==
    /\ /\ AuthFinished("changePassword")
       /\ authReq.admin # NoAdmin
       /\ authHist.admins[authReq.admin.id].password
             # Hashed(authReq.currentPassword)
       => /\ authRes.status \in {400, 500}
          /\ admins = authHist.admins
    /\ LoginAfterRefusedChange =>
          /\ admins[authHist.previous.admin].password = Hashed(authReq.password)
                => authRes.status = 200 /\ authRes.token.id = authHist.previous.admin
          /\ authReq.password = authHist.previous.newPassword
                => authRes.status = 401 /\ authRes.token = NoToken

\* the default admin asked for a new password giving a wrong current one,
\* and has then logged in with the old password
C16_Witness ==
    /\ LoginAfterRefusedChange
    /\ authHist.previous.status \in {400, 500}
    /\ authHist.previous.newPassword = NewPassword
    /\ authReq.password = AdminPassword
    /\ authRes.status = 200

\* the request of slot p found the count of one of the limiters in front
\* of its route at that limiter's maximum, or above it
LimitReached(p) ==
    \/ arrival[p]["api"][ip[p]] >= ApiLimiterMax
    \/ /\ req[p].op \in {"createCategory", "createItem"}
       /\ arrival[p]["create"][ip[p]] >= CreateLimiterMax

\* C17: once a limiter has counted its maximum for a source address, every
\* further request of that address to a mutating route behind the limiter
\* is answered 429 before any validator or handler runs, and the store is
\* left as it was
C17_LimitedAt429 ==
    \A p \in {1} :
       ip[p] # NoSource /\ LimitReached(p) =>
          /\ pc[p] = "done"
          /\ res[p].status = 429
          /\ loc[p] = NoLocals
          /\ ~hist[p].mutated
          /\ categories = hist[p].categories
          /\ items = hist[p].items

\* createLimiter had counted its maximum for the address, apiLimiter had
\* not, and the address's next createItem request has been answered 429
C17_Witness ==
    /\ pc[1] = "done"
    /\ req[1].op = "createItem"
    /\ arrival[1]["create"][ip[1]] = CreateLimiterMax
    /\ arrival[1]["api"][ip[1]] < ApiLimiterMax
    /\ res[1].status = 429

\* the page and the limit the answered list request asked for
AskedPage ==
    IF listReq.page = Undefined THEN 1 ELSE ParseInt(listReq.page)

AskedLimit ==
    IF listReq.limit = Undefined THEN 10 ELSE ParseInt(listReq.limit)

\* the records left from the first of the asked page on
LeftFromPage ==
    IF Len(matching) - (AskedPage - 1) * AskedLimit > 0
    THEN Len(matching) - (AskedPage - 1) * AskedLimit
    ELSE 0

\* C18: a list request for page p >= 1 with limit l in 1..100 over N
\* matching records is answered with min(l, max(0, N - (p-1)l)) records,
\* total N, pages ceil(N / l), hasNext iff p < pages, hasPrev iff p > 1
C18_Pagination ==
    listRes.status = 200 =>
        /\ AskedPage >= 1 /\ AskedLimit \in 1..100
        /\ Len(listRes.records) =
              IF AskedLimit < LeftFromPage THEN AskedLimit ELSE LeftFromPage
        /\ listRes.total = Len(matching)
        /\ listRes.pages * AskedLimit >= Len(matching)
        /\ (listRes.pages - 1) * AskedLimit < Len(matching)
        /\ listRes.hasNext <=> AskedPage < listRes.pages
        /\ listRes.hasPrev <=> AskedPage > 1

\* page 2 with limit 10 of 25 records: 10 records, 3 pages, a next and a
\* previous page
C18_Witness ==
    /\ Len(matching) = 25
    /\ listReq.page = <<"2">> /\ listReq.limit = <<"1", "0">>
    /\ listRes.status = 200
    /\ Len(listRes.records) = 10 /\ listRes.records[1] = 11
    /\ listRes.pages = 3 /\ listRes.hasNext /\ listRes.hasPrev

\* only a-z, 0-9 and hyphens, no hyphen at either end, no two in a row
CleanSlug(slug) ==
    /\ \A i \in DOMAIN slug :
          slug[i] \in {"a", "b", "c", "d", "e", "f", "g", "h", "i", "j", "k",
                       "l", "m", "n", "o", "p", "q", "r", "s", "t", "u", "v",
                       "w", "x", "y", "z", "0", "1", "2", "3", "4", "5", "6",
                       "7", "8", "9", "-"}
    /\ slug[1] # "-" /\ slug[Len(slug)] # "-"
    /\ \A i \in 1..(Len(slug) - 1) : ~(slug[i] = "-" /\ slug[i + 1] = "-")

\* C19: each slug derivation (createCategory's, createItem's, the pre-save
\* hook's) gives, when its output is not empty, a slug of a-z, 0-9 and
\* hyphens only, with no hyphen at either end and no two adjacent hyphens,
\* and deriving once more from that output gives the output back
C19_DerivedSlugClean ==
    slugResult.by # "none" /\ slugResult.slug # <<>> =>
        /\ CleanSlug(slugResult.slug)
        /\ slugResult.again = slugResult.slug

\* a title of blanks, hyphens, an upper-case letter and a special character
\* has been turned into a slug by the pre-save hook
C19_Witness ==
    /\ slugSource = <<"-", "B", " ", "!">>
    /\ slugResult.by = "preSave"
    /\ slugResult.slug = <<"b">>
    /\ slugResult.again = <<"b">>

\* an updateCategory request whose id no category of the store it arrived
\* on has, has been answered
UnknownCategoryUpdated ==
    /\ pc[1] = "done"
    /\ req[1].op = "updateCategory"
    /\ req[1].id \notin DOMAIN hist[1].categories

\* a category of the store the request arrived on holds the slug the
\* request gives or derives from its name
RequestedSlugHeld ==
    \E c \in DOMAIN hist[1].categories :
       hist[1].categories[c].slug = loc[1].slug

\* C20 as stated: updateCategory with an id that matches no stored category
\* is answered 404 and leaves the store unchanged, whatever its other fields
C20_UnknownIdAlways404 ==
    UnknownCategoryUpdated =>
        /\ res[1].status = 404
        /\ categories = hist[1].categories

\* C20 amended: updateCategory with an id that matches no stored category
\* never succeeds and leaves the store unchanged; it is answered 404 unless
\* it is refused before the lookup: 400 when the slug it gives or derives
\* is held by a stored category, 400 by the validators, 500 by the update
\* validators (an empty derived slug, a field the schema refuses)
C20_UnknownIdNeverUpdates ==
    UnknownCategoryUpdated =>
        /\ res[1].status \in {400, 404, 500}
        /\ categories = hist[1].categories
        /\ items = hist[1].items
        /\ loc[1] # NoLocals /\ RequestedSlugHeld => res[1].status = 400
        /\ /\ loc[1] # NoLocals
           /\ ~RequestedSlugHeld
           /\ req[1].fieldsOk
           /\ loc[1].slug # <<>>
           /\ \A i \in DOMAIN loc[1].slug : loc[1].slug[i] \in SlugChars
           => res[1].status = 404

\* an update of a category that does not exist, naming "Movies ", whose
\* slug the stored category movies holds, has been answered 400
C20_Witness ==
    /\ UnknownCategoryUpdated
    /\ RequestedSlugHeld
    /\ loc[1].slug = <<"m", "o", "v", "i", "e", "s">>
    /\ res[1].status = 400

\* two create requests of the same kind have both left their probe loop
\* with the same slug and documents the schema accepts, and both are answered
SameSlugCreates(p, q) ==
    /\ p # q
    /\ pc[p] = "done" /\ pc[q] = "done"
    /\ req[p].op = req[q].op
    /\ req[p].op \in {"createCategory", "createItem"}
    /\ Truthy(loc[p].uniqueSlug)
    /\ loc[p].uniqueSlug = loc[q].uniqueSlug
    /\ MatchesSlugPattern(loc[p].uniqueSlug)
    /\ req[p].fieldsOk /\ req[q].fieldsOk

\* C21: when two concurrent create requests derive the same slug and both
\* pass the uniqueness probe before either writes, at most one document
\* with that slug is stored and the request that loses on the unique index
\* is answered with Conflict (400 or 409), not with 500.
C21_DuplicateKeyConflict ==
    \A p, q \in Procs :
        SameSlugCreates(p, q) =>
            /\ Cardinality(CategoryWithSlug(loc[p].uniqueSlug)) <= 1
            /\ Cardinality(ItemWithSlug(loc[p].uniqueSlug)) <= 1
            /\ res[p].status # SuccessStatus(req[p].op) => res[p].status \in {400, 409}

CategoryOnlyCreate(p) ==
    /\ pc[p] = "done"
    /\ req[p].op = "createItem"
    /\ req[p].category \in DOMAIN hist[p].categories
    /\ req[p].text = Undefined
    /\ req[p].slug = Undefined
    /\ req[p].status = NoStatus

C23_ReferencesResolve ==
    \A i \in DOMAIN items : items[i].category \in DOMAIN categories

\* the request in slot p carries a value that the schema of the store
\* refuses although the route's validators let it through: a status outside
\* the enum for a stored item, or an explicit slug outside the pattern for a
\* new item of a stored category
SchemaRefuses(p) ==
    \/ /\ req[p].op = "updateItemStatus"
       /\ req[p].id \in DOMAIN hist[p].items
       /\ req[p].status \notin ItemStatuses \cup {NoStatus}
    \/ /\ req[p].op = "createItem"
       /\ req[p].category \in DOMAIN hist[p].categories
       /\ req[p].status \in ItemStatuses \cup {NoStatus}
       /\ Truthy(req[p].slug)
       /\ ~SlugMatchValidator(SlugSetters(req[p].slug))

\* C24: when the store rejects a write for schema validation (a PATCH of an
\* item's status with a status outside active, inactive, draft, or a
\* createItem with an explicit slug that does not match the pattern), the
\* request is answered 400, not 500, and the store is unchanged.
C24_SchemaRejection400 ==
    \A p \in Procs :
        (pc[p] = "done" /\ SchemaRefuses(p)) =>
            /\ res[p].status = 400
            /\ items = hist[p].items
            /\ categories = hist[p].categories

\* the slug an update request asks for, as the store casts it: the one its
\* body gives or else the one derived from its name or title; none if the
\* body has neither
AskedSlug(p) ==
    IF Truthy(req[p].slug) THEN SlugSetters(req[p].slug)
    ELSE IF Truthy(req[p].text) THEN Slugify(req[p].text)
    ELSE Undefined

\* an update of a stored document has been answered, after its body passed
\* the validators of its route
UpdateAnswered(p, op, coll) ==
    /\ pc[p] = "done"
    /\ req[p].op = op
    /\ req[p].id \in DOMAIN coll
    /\ loc[p] # NoLocals

\* the documents other than the request's own that hold the slug it asks for
OthersHolding(p, coll) ==
    { d \in DOMAIN coll \ {req[p].id} : coll[d].slug = AskedSlug(p) }

\* C25: with requests one at a time, an update of a category or of an item
\* that resubmits the document's own slug is never refused as a slug
\* collision (400); an update that asks for a slug held by a different
\* document of the same kind is answered 400 and leaves the store unchanged.
C25_OwnSlugExcluded ==
    \A p \in Procs :
        /\ ( /\ UpdateAnswered(p, "updateCategory", hist[p].categories)
             /\ AskedSlug(p) = hist[p].categories[req[p].id].slug )
           => res[p].status # 400
        /\ ( /\ UpdateAnswered(p, "updateItem", hist[p].items)
             /\ AskedSlug(p) = hist[p].items[req[p].id].slug
             /\ req[p].category \in DOMAIN hist[p].categories \cup {NoId} )
           => res[p].status # 400
        /\ ( /\ UpdateAnswered(p, "updateCategory", hist[p].categories)
             /\ OthersHolding(p, hist[p].categories) # {} )
           => /\ res[p].status = 400
              /\ categories = hist[p].categories /\ items = hist[p].items
        /\ ( /\ UpdateAnswered(p, "updateItem", hist[p].items)
             /\ OthersHolding(p, hist[p].items) # {} )
           => /\ res[p].status = 400
              /\ categories = hist[p].categories /\ items = hist[p].items

\* the category movies has been updated with a name from which its own slug
\* is derived, and the update went through
C25_Witness ==
    \E p \in Procs :
        /\ UpdateAnswered(p, "updateCategory", hist[p].categories)
        /\ AskedSlug(p) = hist[p].categories[req[p].id].slug
        /\ AskedSlug(p) = <<"m", "o", "v", "i", "e", "s">>
        /\ res[p].status = 200

\* the probes a create request has made so far: its loop is at the probe
\* numbered counter, or has left the loop with that probe
ProbesMade(p) ==
    IF pc[p] \in {"cc_probe", "ci_probe"} THEN loc[p].counter - 1 ELSE loc[p].counter

\* the probe loop makes at most one probe more than the collection holds
\* slugs, and the slug it leaves with is held by no stored document
ProbeBounded ==
    \A p \in Procs :
        /\ pc[p] \in {"cc_probe", "cc_save"} =>
              ProbesMade(p) <= Cardinality(DOMAIN categories) + 1
        /\ pc[p] \in {"ci_probe", "ci_save"} =>
              ProbesMade(p) <= Cardinality(DOMAIN items) + 1
        /\ pc[p] = "cc_save" =>
              \A c \in DOMAIN categories :
                  categories[c].slug # SlugSetters(loc[p].uniqueSlug)
        /\ pc[p] = "ci_save" =>
              \A i \in DOMAIN items :
                  items[i].slug # SlugSetters(loc[p].uniqueSlug)

\* the create request is in its probe loop
InProbeLoop ==
    pc[1] \in {"cc_probe", "ci_probe"}

\* the create request has left its probe loop and is about to save
LeftProbeLoop ==
    pc[1] \in {"cc_save", "ci_save"}

\* C26: on a store of any content and with no concurrent writer, the
\* uniqueness probe loop of createCategory and of createItem makes at most
\* (number of stored slugs + 1) probes and then ends, and the slug it ends
\* with is held by no stored document.
C26_ProbeLoopEnds ==
    /\ []ProbeBounded
    /\ InProbeLoop ~> LeftProbeLoop

\* createCategory has left its loop with games-2 after three probes, on a
\* store that holds games and games-1 and nothing else
C26_Witness ==
    \E p \in Procs :
        /\ pc[p] = "cc_save"
        /\ loc[p].counter = 3
        /\ Cardinality(DOMAIN categories) = 2
        /\ loc[p].uniqueSlug = <<"g","a","m","e","s","-","2">>

\* C27: with requests one at a time and a store that never fails, after
\* every completed request of any kind the itemCount of every stored
\* category is the number of stored items that reference it with status
\* active.
C27_CountsAfterEachRequest ==
    \A p \in Procs :
        pc[p] = "done" =>
            \A c \in DOMAIN categories :
                categories[c].itemCount =
                    Cardinality({ i \in DOMAIN items :
                                    /\ items[i].category = c
                                    /\ items[i].status = "active" })

\* a status change has taken an active item out of the count of its category
C27_Witness ==
    \E p \in Procs :
        /\ Finished(p, "updateItemStatus", 200)
        /\ hist[p].items[req[p].id].status = "active"
        /\ items[req[p].id].status = "inactive"
        /\ categories[items[req[p].id].category].itemCount =
              hist[p].categories[items[req[p].id].category].itemCount - 1

\* a changePassword request of an admin whom the auth gate attached has been
\* answered, and the current password it gave is the admin's
RightCurrentPassword ==
    /\ AuthFinished("changePassword")
    /\ authHist.handler
    /\ authReq.admin # NoAdmin
    /\ authHist.admins[authReq.admin.id].password = Hashed(authReq.currentPassword)

\* the login right after the changePassword request of the admin it names,
\* the first request the server got, which gave the admin's password
LoginAfterChange ==
    /\ AuthFinished("login")
    /\ ValidatedLogin
    /\ authHist.previous.op = "changePassword"
    /\ authHist.previous.admin \in DOMAIN admins
    /\ admins[authHist.previous.admin].email = authReq.email
    /\ InitialAdmins[authHist.previous.admin].password
          = Hashed(authHist.previous.currentPassword)

\* C28: an admin attached by the auth gate who calls changePassword with the
\* correct current password gets a success response; a login right after it
\* succeeds with the new password and fails with the old one.
C28_ChangePasswordWorks ==
    /\ RightCurrentPassword =>
          /\ authRes.status = 200
          /\ admins[authReq.admin.id].password = Hashed(authReq.newPassword)
    /\ LoginAfterChange =>
          /\ authReq.password = authHist.previous.newPassword => authRes.status = 200
          /\ authReq.password = authHist.previous.currentPassword => authRes.status = 401

\* C29: whenever createItem answers with an error (400 or 500), no new item
\* has been stored and the itemCount of no category has changed.
C29_FailedCreateLeavesStore ==
    \A p \in Procs :
        ( /\ pc[p] = "done"
          /\ req[p].op = "createItem"
          /\ res[p].status \in {400, 500} )
        => /\ DOMAIN items = DOMAIN hist[p].items
           /\ \A c \in DOMAIN categories \cap DOMAIN hist[p].categories :
                 categories[c].itemCount = hist[p].categories[c].itemCount

\* C30: a successful updateItem request whose body has no characters field
\* leaves the stored characters list of the item unchanged.
C30_CharactersKept ==
    \A p \in Procs :
        (Finished(p, "updateItem", 200) /\ req[p].characters = Undefined) =>
            items[req[p].id].characters = hist[p].items[req[p].id].characters

====
